---- MODULE Spec2Model ----
(***************************************************************************)
(* cachinator: rate-limit middleware (fixed window, sliding window, token  *)
(* bucket) and response-cache middleware over the in-process MemoryStore.  *)
(*                                                                         *)
(* Time is counted in clock ticks; `now` is what Date.now() returns.  The  *)
(* window W (options.window * 1000 ms) lasts WindowTicks ticks.  Token     *)
(* amounts are kept exactly, in units of 1/WindowTicks of a token: a       *)
(* refill rate of q tokens per window adds q units per tick.               *)
(***************************************************************************)
EXTENDS Integers, Sequences, FiniteSets, TLC

\* ---------------------------------------------------------------- bounds
MaxTime == 5
MaxReqs == 5
MaxOther == 1
TtlTicks == 2
MaxGets == 3
MinSizeBytes == 2
MaxQuota == 2
WindowTicks == 4
WindowSeconds == 2

\* Requests of key "a" are explored up to MaxReqs; the other key sends at most
\* MaxOther of them.
Keys == {"a", "b"}
MainKey == "a"
RLSlots == {1}
CKeys == {"/x"}
CSlots == {1, 2}
Strategies == {"fixed_window", "sliding_window", "token_bucket"}

VARIABLES
    now,            \* Date.now(), in ticks
    cfg,            \* the options the middleware was built with
    counters,       \* MemoryStore.counters       : key -> Counter
    tokenBuckets,   \* MemoryStore.tokenBuckets   : key -> bucket
    slidingWindows, \* MemoryStore.slidingWindows : key -> window
    rl,             \* rate-limit requests in flight, per slot
    hist,           \* decided rate-limit requests, in order of decision
    last,           \* what the most recently finished rate-limit request did
    skew,           \* some request saw the clock advance between its time readings
    ccfg,           \* the options the cache middleware was built with
    cache,          \* MemoryStore.cache : key -> entry
    creq,           \* cache requests in flight, per slot
    clast,          \* what the most recently finished cache request did and saw
    content,        \* per key: status and bytes put by the writer of the entry
    inval,          \* per key: deleted by invalidation and not requested since
    revalMark,      \* per key: written by a revalidation and not requested since
    ngets           \* number of GET requests received so far

rlVars == <<cfg, counters, tokenBuckets, slidingWindows, rl, hist, last, skew>>
cacheVars == <<ccfg, cache, creq, clast, content, inval, revalMark, ngets>>
vars == <<now, rlVars, cacheVars>>

\* ------------------------------------------------------------- utilities
MapPut_all(m, k, v) == [x \in (DOMAIN m) \cup {k} |-> v]
MapPut(m, k, v) == [x \in (DOMAIN m) \cup {k} |-> IF x = k THEN v ELSE m[x]]
MapDel(m, k) == [x \in (DOMAIN m) \ {k} |-> m[x]]
EmptyMap == [x \in {} |-> 0]

Max2(a, b) == IF a >= b THEN a ELSE b
Min2(a, b) == IF a <= b THEN a ELSE b

RECURSIVE SeqMin(_)
SeqMin(s) == IF Len(s) = 1 THEN s[1] ELSE Min2(s[1], SeqMin(Tail(s)))

RECURSIVE FilterNewer(_, _)
FilterNewer(s, cutoff) ==
    IF s = <<>> THEN <<>>
    ELSE IF s[1] > cutoff THEN <<s[1]>> \o FilterNewer(Tail(s), cutoff)
         ELSE FilterNewer(Tail(s), cutoff)

\* ---------------------------------------------------------- configuration
\* rateLimit(options): requests, strategy, optional burst and refillRate.
\* An option left undefined is the empty sequence.
requests == cfg.requests
windowMs == WindowTicks
maxTokens == IF cfg.burst = <<>> THEN requests ELSE cfg.burst[1]
\* tokensPerSecond, as token units (1/WindowTicks token) gained per tick
tokensPerTick == IF cfg.refill = <<>> THEN requests ELSE cfg.refill[1]
TokenUnit == WindowTicks

Configs ==
    { c \in [store : {"memory"}, strategy : Strategies, requests : 1..MaxQuota,
             burst : {<<>>} \cup {<<b>> : b \in 1..(MaxQuota + 1)},
             refill : {<<>>} \cup {<<q>> : q \in 1..MaxQuota}] :
        /\ c.strategy # "token_bucket" => (c.burst = <<>> /\ c.refill = <<>>)
        /\ (c.burst = <<>>) = (c.refill = <<>>)
        /\ c.burst # <<>> => c.burst[1] = c.requests + 1
        /\ c.refill # <<>> => c.refill[1] = c.requests }

\* The store handed to rateLimit: "memory" is MemoryStore; "basic" is a store
\* that implements increment as MemoryStore does but none of the optional
\* getTokens, setTokens and addToWindow
HasAddToWindow == cfg.store = "memory"
HasTokenOps == cfg.store = "memory"

\* ------------------------------------------------------------ MemoryStore
CounterExpired_lt(m, k, t) == k \notin DOMAIN m \/ m[k].expiresAt < t
CounterExpired(m, k, t) == k \notin DOMAIN m \/ m[k].expiresAt <= t

\* MemoryStore.increment: the record after the call at store time t
IncrementRec(m, k, t) ==
    IF CounterExpired(m, k, t)
    THEN [count |-> 1, expiresAt |-> t + windowMs]
    ELSE [count |-> m[k].count + 1, expiresAt |-> m[k].expiresAt]

\* MemoryStore.getTokens: present iff the bucket exists and has not expired
BucketLive(m, k, t) == k \in DOMAIN m /\ ~(m[k].expiresAt <= t)
GetTokensMap(m, k, t) == IF BucketLive(m, k, t) THEN m ELSE MapDel(m, k)

\* MemoryStore.setTokens
SetTokensMap_keep(m, k, tokens, lastRefill, t) ==
    MapPut(m, k, [tokens |-> tokens, lastRefill |-> lastRefill,
                  expiresAt |-> IF k \in DOMAIN m THEN m[k].expiresAt
                                ELSE t + windowMs])
SetTokensMap(m, k, tokens, lastRefill, t) ==
    MapPut(m, k, [tokens |-> tokens, lastRefill |-> lastRefill,
                  expiresAt |-> t + windowMs])

\* MemoryStore.addToWindow: the window record after the call at store time t
WindowFresh_keep(m, k, t) ==
    IF k \notin DOMAIN m
    THEN [timestamps |-> <<>>, expiresAt |-> t + windowMs]
    ELSE m[k]
WindowFresh(m, k, t) ==
    IF k \notin DOMAIN m \/ m[k].expiresAt <= t
    THEN [timestamps |-> <<>>, expiresAt |-> t + windowMs]
    ELSE m[k]
AddToWindowRec(m, k, timestamp, t) ==
    LET w == WindowFresh(m, k, t)
    IN [timestamps |-> Append(FilterNewer(w.timestamps, t - windowMs), timestamp),
        expiresAt |-> w.expiresAt]

\* ------------------------------------------------- rateLimitMiddleware
IdleReq == [pc |-> "idle", key |-> "", engNow |-> 0, tokens |-> 0,
            lastRefill |-> 0, calls |-> <<>>]
NoResponse == [key |-> "", outcome |-> "none", status |-> 0, next |-> 0,
               nextErr |-> 0, onAllowed |-> 0, onBlocked |-> 0, onError |-> 0,
               hitsNum |-> 0, hitsDen |-> 1, remaining |-> 0,
               ttlNum |-> 0, ttlDen |-> 1,
               calls |-> <<>>, failed |-> "",
               body |-> "", hdrLimit |-> -1, hdrRemaining |-> -1,
               hdrReset |-> -1, events |-> <<>>]

\* lines 48-65: headers, then 429 or next()
\* totalHits and ttlMs are rationals hitsNum/hitsDen and ttlNum/ttlDen (ticks)
Blocked_ge(res) ==
    res.hitsNum >=
      (IF cfg.strategy = "token_bucket" THEN maxTokens ELSE requests) * res.hitsDen
Blocked(res) ==
    res.hitsNum >
      (IF cfg.strategy = "token_bucket" THEN maxTokens ELSE requests) * res.hitsDen
\* line 53: Math.ceil(ttlMs / 1000); a tick is window * 1000 / WindowTicks ms
ResetSeconds_floor(res) ==
    (res.ttlNum * WindowSeconds) \div (res.ttlDen * WindowTicks)
ResetSeconds(res) ==
    -((-(res.ttlNum * WindowSeconds)) \div (res.ttlDen * WindowTicks))
\* lines 50-54: the three X-RateLimit headers
WithHeaders(rsp, res) ==
    [rsp EXCEPT !.hdrLimit = requests, !.hdrRemaining = res.remaining,
                !.hdrReset = ResetSeconds(res),
                !.events = <<"X-RateLimit-Limit", "X-RateLimit-Remaining",
                             "X-RateLimit-Reset">>]
\* lines 57-62: res.status(429).json({ error: 'Too Many Requests' }); return
Reject_next(rsp) ==
    [rsp EXCEPT !.outcome = "blocked", !.status = 429, !.onBlocked = 1,
                !.body = "{\"error\":\"Too Many Requests\"}", !.next = 1,
                !.events = @ \o <<"onBlocked", "status", "json", "next">>]
Reject(rsp) ==
    [rsp EXCEPT !.outcome = "blocked", !.status = 429, !.onBlocked = 1,
                !.body = "{\"error\":\"Too Many Requests\"}",
                !.events = @ \o <<"onBlocked", "status", "json">>]
\* lines 64-65: onAllowed, next(); the response is left as it was
Admit_noHook(rsp) ==
    [rsp EXCEPT !.outcome = "allowed", !.status = 200,
                !.next = 1, !.events = @ \o <<"next">>]
Admit(rsp) ==
    [rsp EXCEPT !.outcome = "allowed", !.status = 200, !.onAllowed = 1,
                !.next = 1, !.events = @ \o <<"onAllowed", "next">>]
Decide(k, res, calls) ==
    LET rsp == WithHeaders(
                 [NoResponse EXCEPT !.key = k, !.hitsNum = res.hitsNum,
                     !.hitsDen = res.hitsDen, !.remaining = res.remaining,
                     !.ttlNum = res.ttlNum, !.ttlDen = res.ttlDen,
                     !.calls = calls], res)
    IN IF Blocked(res) THEN Reject(rsp) ELSE Admit(rsp)

\* lines 66-69: a store call threw or rejected
CatchError_swallow(k, calls, op) ==
    [NoResponse EXCEPT !.key = k, !.outcome = "allowed", !.status = 200,
        !.onError = 1, !.next = 1, !.calls = calls, !.failed = op]
CatchError(k, calls, op) ==
    [NoResponse EXCEPT !.key = k, !.outcome = "error", !.onError = 1,
        !.nextErr = 1, !.calls = calls, !.failed = op,
        !.events = <<"onError", "next(error)">>]

Record(k, t, st, rsp) ==
    Append(hist, [key |-> k, t |-> t, allowed |-> (rsp.outcome = "allowed"),
                  hits |-> rsp.hitsNum])

Finish(r, rsp, t, st) ==
    /\ rl' = [rl EXCEPT ![r] = IdleReq]
    /\ last' = rsp
    /\ hist' = IF rsp.outcome = "error" THEN hist
               ELSE Record(rsp.key, t, st, rsp)

OtherCount == Cardinality({i \in 1..Len(hist) : hist[i].key # MainKey})
CanStart(r, k) ==
    /\ rl[r].pc = "idle"
    /\ Len(hist) < MaxReqs
    /\ k # MainKey => OtherCount < MaxOther

\* strategy fixed_window: result = await store.increment(key, windowMs)
FixedRequest(r, k, fail) ==
    /\ cfg.strategy = "fixed_window"
    /\ CanStart(r, k)
    /\ IF fail
       THEN /\ Finish(r, CatchError(k, <<"increment">>, "increment"), now, now)
            /\ UNCHANGED counters
       ELSE LET rec == IncrementRec(counters, k, now)
                res == [hitsNum |-> rec.count, hitsDen |-> 1,
                        remaining |-> Max2(0, requests - rec.count),
                        ttlNum |-> rec.expiresAt - now, ttlDen |-> 1]
            IN /\ counters' = MapPut(counters, k, rec)
               /\ Finish(r, Decide(k, res, <<"increment">>), now, now)
    /\ UNCHANGED <<now, cfg, tokenBuckets, slidingWindows, skew, cacheVars>>

\* handleSlidingWindow line 132: const now = Date.now()
SlidingStart(r, k) ==
    /\ cfg.strategy = "sliding_window"
    /\ HasAddToWindow
    /\ CanStart(r, k)
    /\ rl' = [rl EXCEPT ![r] = [IdleReq EXCEPT !.pc = "sw_add", !.key = k,
                                              !.engNow = now]]
    /\ UNCHANGED <<now, cfg, counters, tokenBuckets, slidingWindows, hist, last, skew, cacheVars>>

\* handleSlidingWindow lines 133-140 with MemoryStore.addToWindow
SlidingStore(r, fail) ==
    /\ rl[r].pc = "sw_add"
    /\ LET k == rl[r].key
           t == rl[r].engNow
       IN IF fail
          THEN /\ Finish(r, CatchError(k, <<"addToWindow">>, "addToWindow"), t, now)
               /\ UNCHANGED slidingWindows
          ELSE LET w == AddToWindowRec(slidingWindows, k, t, now)
                   count == Len(w.timestamps)
                   oldest == SeqMin(w.timestamps)
                   res == IF count > requests
                          THEN [hitsNum |-> count, hitsDen |-> 1, remaining |-> 0,
                                ttlNum |-> Max2(0, oldest + windowMs - t),
                                ttlDen |-> 1]
                          ELSE [hitsNum |-> count, hitsDen |-> 1,
                                remaining |-> Max2(0, requests - count),
                                ttlNum |-> windowMs, ttlDen |-> 1]
               IN /\ slidingWindows' = MapPut(slidingWindows, k, w)
                  /\ Finish(r, Decide(k, res, <<"addToWindow">>), t, now)
    /\ skew' = (skew \/ now # rl[r].engNow)
    /\ UNCHANGED <<now, cfg, counters, tokenBuckets, cacheVars>>

\* handleTokenBucket lines 81-89: const now = Date.now(); MemoryStore has
\* getTokens and setTokens, so the fixed-window fallback is not taken
TBStart(r, k) ==
    /\ cfg.strategy = "token_bucket"
    /\ HasTokenOps
    /\ CanStart(r, k)
    /\ rl' = [rl EXCEPT ![r] = [IdleReq EXCEPT !.pc = "tb_get", !.key = k,
                                              !.engNow = now]]
    /\ UNCHANGED <<now, cfg, counters, tokenBuckets, slidingWindows, hist, last, skew, cacheVars>>

\* lines 96-99: the refill computed from an existing bucket, in token units
Refill_uncapped(existing, t) ==
    [tokens |-> existing.tokens + (t - existing.lastRefill) * tokensPerTick,
     lastRefill |-> existing.lastRefill]
Refill(existing, t) ==
    [tokens |-> Min2(maxTokens * TokenUnit,
                     existing.tokens + (t - existing.lastRefill) * tokensPerTick),
     lastRefill |-> existing.lastRefill]

\* lines 91-100: existing = await store.getTokens(key), then the refill
TBGet(r, fail) ==
    /\ rl[r].pc = "tb_get"
    /\ LET k == rl[r].key
           t == rl[r].engNow
       IN IF fail
          THEN /\ Finish(r, CatchError(k, <<"getTokens">>, "getTokens"), t, now)
               /\ UNCHANGED tokenBuckets
          ELSE LET b == IF BucketLive(tokenBuckets, k, now)
                        THEN Refill(tokenBuckets[k], t)
                        ELSE [tokens |-> maxTokens * TokenUnit, lastRefill |-> t]
               IN /\ tokenBuckets' = GetTokensMap(tokenBuckets, k, now)
                  /\ rl' = [rl EXCEPT ![r].pc = "tb_set", ![r].tokens = b.tokens,
                                      ![r].lastRefill = b.lastRefill,
                                      ![r].calls = <<"getTokens">>]
                  /\ UNCHANGED <<hist, last>>
    /\ skew' = (skew \/ now # rl[r].engNow)
    /\ UNCHANGED <<now, cfg, counters, slidingWindows, cacheVars>>

\* lines 102-117: block without consuming, or consume one token; either way
\* await store.setTokens(key, tokens, lastRefill, window * 1000)
TBSet_blockedSkips(r, fail) ==
    /\ rl[r].pc = "tb_set"
    /\ LET k == rl[r].key
           t == rl[r].engNow
           calls == Append(rl[r].calls, "setTokens")
           short == rl[r].tokens < TokenUnit
           tokens == IF short THEN rl[r].tokens ELSE rl[r].tokens - TokenUnit
           res == IF short
                  THEN [hitsNum |-> maxTokens + 1, hitsDen |-> 1, remaining |-> 0,
                        ttlNum |-> TokenUnit - tokens, ttlDen |-> tokensPerTick]
                  ELSE [hitsNum |-> maxTokens * TokenUnit - tokens,
                        hitsDen |-> TokenUnit,
                        remaining |-> tokens \div TokenUnit,
                        ttlNum |-> windowMs, ttlDen |-> 1]
       IN IF fail
          THEN /\ Finish(r, CatchError(k, calls, "setTokens"), t, now)
               /\ UNCHANGED tokenBuckets
          ELSE IF short
          THEN /\ Finish(r, Decide(k, res, rl[r].calls), t, now)
               /\ UNCHANGED tokenBuckets
          ELSE /\ tokenBuckets' =
                     SetTokensMap(tokenBuckets, k, tokens, rl[r].lastRefill, now)
               /\ Finish(r, Decide(k, res, calls), t, now)
    /\ skew' = (skew \/ now # rl[r].engNow)
    /\ UNCHANGED <<now, cfg, counters, slidingWindows, cacheVars>>
TBSet(r, fail) ==
    /\ rl[r].pc = "tb_set"
    /\ LET k == rl[r].key
           t == rl[r].engNow
           calls == Append(rl[r].calls, "setTokens")
           short == rl[r].tokens < TokenUnit
           tokens == IF short THEN rl[r].tokens ELSE rl[r].tokens - TokenUnit
           res == IF short
                  THEN [hitsNum |-> maxTokens + 1, hitsDen |-> 1, remaining |-> 0,
                        ttlNum |-> TokenUnit - tokens, ttlDen |-> tokensPerTick]
                  ELSE [hitsNum |-> maxTokens * TokenUnit - tokens,
                        hitsDen |-> TokenUnit,
                        remaining |-> tokens \div TokenUnit,
                        ttlNum |-> windowMs, ttlDen |-> 1]
       IN IF fail
          THEN /\ Finish(r, CatchError(k, calls, "setTokens"), t, now)
               /\ UNCHANGED tokenBuckets
          ELSE /\ tokenBuckets' =
                     SetTokensMap(tokenBuckets, k, tokens, rl[r].lastRefill, now)
               /\ Finish(r, Decide(k, res, calls), t, now)
    /\ skew' = (skew \/ now # rl[r].engNow)
    /\ UNCHANGED <<now, cfg, counters, slidingWindows, cacheVars>>

\* The clock advances; a request in flight sees it advance at most one tick
\* between its own reading of the time and the store's.
Tick ==
    /\ now < MaxTime
    /\ \A r \in RLSlots : rl[r].pc # "idle" => rl[r].engNow = now
    /\ now' = now + 1
    /\ UNCHANGED <<rlVars, cacheVars>>

\* ------------------------------------------------------- cache: values
\* A body handed to res.send or to the revalidation set: a Buffer, a string
\* (its character codes) or an object (here the JSON array [n], n a digit).
Buf(bytes) == [kind |-> "buffer", data |-> bytes]
Str(codes) == [kind |-> "string", data |-> codes]
Obj(n) == [kind |-> "object", data |-> <<n>>]

\* JSON.stringify([n]) = "[n]", as character codes
JsonStringify(data) == <<91, 48 + data[1], 93>>

\* lines 110-113 and 81-84: raw = Buffer.isBuffer(body) ? body
\*   : typeof body === 'string' ? Buffer.from(body) : Buffer.from(JSON.stringify(body))
ToRaw(body) ==
    IF body.kind = "buffer" THEN body.data
    ELSE IF body.kind = "string" THEN body.data
    ELSE JsonStringify(body.data)

\* Bytes on the wire or in the store: raw bytes, or their br / gzip compression
Plain(raw) == [enc |-> "identity", data |-> raw]
Compress(algo, raw) == [enc |-> algo, data |-> raw]
NoBytes == Plain(<<>>)

\* What a handler may pass to res.send, with the status and Content-Type it set
HandlerOutputs ==
    { [body |-> Str(<<97>>), status |-> 200, ct |-> <<>>],
      [body |-> Obj(1), status |-> 404, ct |-> <<"application/json">>] }

\* What a revalidation callback may pass to set
RevalValues ==
    { [body |-> Buf(<<1, 2, 3>>), statusCode |-> <<>>, contentType |-> <<>>],
      [body |-> Obj(3), statusCode |-> <<201>>, contentType |-> <<"text/plain">>] }

Accepts == [br : BOOLEAN, gzip : BOOLEAN]
NoAccept == [br |-> FALSE, gzip |-> FALSE]
BothAccept == [br |-> TRUE, gzip |-> TRUE]

\* cache(options): compression mode and the swr option ("none": absent or not
\* enabled, "nocb": enabled without a revalidate callback, "on": enabled with
\* one), with its optional revalidateTtlSeconds
CacheConfigs ==
    { c \in [cache : {TRUE},
             compression : {"off", "br", "gzip", "auto"},
             swr : {"none", "nocb", "on"},
             revalTtl : {<<>>, <<1>>}] :
        /\ c.swr # "on" => c.revalTtl = <<>>
        /\ c.swr # "none" => c.compression = "auto" }
ttlMs == TtlTicks
minSizeBytes == MinSizeBytes
ttlForSetMs == IF ccfg.revalTtl = <<>> THEN ttlMs ELSE ccfg.revalTtl[1]

\* ------------------------------------------------ cache: MemoryStore
\* MemoryStore.getWithTTL: any entry that is present, with expiresAt - now
HasEntry(m, k) == k \in DOMAIN m
EntryTtl(m, k, t) == m[k].expiresAt - t

\* MemoryStore.get: only an entry that has not expired; an expired one is
\* deleted
GetLive(m, k, t) == k \in DOMAIN m /\ ~(m[k].expiresAt <= t)
GetMap(m, k, t) == IF k \in DOMAIN m /\ m[k].expiresAt <= t THEN MapDel(m, k) ELSE m

\* MemoryStore.set
SetEntry_noTtl(value, t) ==
    [body |-> value.body, statusCode |-> value.statusCode,
     contentType |-> value.contentType, contentEncoding |-> value.contentEncoding,
     expiresAt |-> t]
SetEntry(value, t) ==
    [body |-> value.body, statusCode |-> value.statusCode,
     contentType |-> value.contentType, contentEncoding |-> value.contentEncoding,
     expiresAt |-> t + value.ttlMs]

\* ------------------------------------------------ cacheMiddleware
NoContent == [status |-> 0, body |-> NoBytes]
NoMark == [on |-> FALSE, body |-> NoBytes, at |-> 0]
\* What the last invalidation of a key met: nothing under way ("quiet"), a
\* revalidation ("reval") or a handler ("handler") under way, and whether it
\* removed an entry whose TTL had not elapsed
NoInval == [state |-> "none", fresh |-> FALSE]
\* What one request did (response, hooks, next) and what its lookup saw
EmptyResp ==
    [done |-> FALSE, key |-> "", xcache |-> "", status |-> 0, body |-> NoBytes,
     enc |-> "", vary |-> FALSE, ctype |-> "", handlerCalls |-> 0,
     revalCalls |-> 0, onHit |-> 0, onMiss |-> 0, onCacheSet |-> 0,
     onError |-> 0, next |-> 0, nextErr |-> 0, sends |-> 0, events |-> <<>>,
     bgFail |-> 0, present |-> FALSE, ttlLeft |-> 0, expect |-> NoContent,
     inval |-> NoInval, afterReval |-> NoMark, revalAge |-> 0,
     accept |-> NoAccept, overloaded |-> FALSE, store |-> <<>>,
     method |-> "", bypass |-> "", wrapped |-> FALSE, fault |-> "",
     orig |-> Buf(<<>>)]
\* A request in flight: where it stands, what it captured, what it did so far
IdleCReq == [pc |-> "idle", key |-> "", accept |-> NoAccept,
             cachedType |-> "", cachedStatus |-> 0, setDone |-> FALSE,
             rsp |-> EmptyResp]

\* lines 121-130
PickAlgo_noProbe(mode, largeEnough, clientAcceptsBr, clientAcceptsGzip, overloaded) ==
    IF mode = "off" THEN ""
    ELSE IF ~largeEnough THEN ""
    ELSE IF mode = "br"
         THEN (IF clientAcceptsBr THEN "br" ELSE IF clientAcceptsGzip THEN "gzip" ELSE "")
    ELSE IF mode = "gzip" THEN (IF clientAcceptsGzip THEN "gzip" ELSE "")
    ELSE IF ~clientAcceptsBr /\ clientAcceptsGzip THEN "gzip"
    ELSE IF clientAcceptsBr THEN "br"
    ELSE ""
PickAlgo(mode, largeEnough, clientAcceptsBr, clientAcceptsGzip, overloaded) ==
    IF mode = "off" THEN ""
    ELSE IF ~largeEnough THEN ""
    ELSE IF mode = "br"
         THEN (IF clientAcceptsBr THEN "br" ELSE IF clientAcceptsGzip THEN "gzip" ELSE "")
    ELSE IF mode = "gzip" THEN (IF clientAcceptsGzip THEN "gzip" ELSE "")
    ELSE IF ~clientAcceptsBr /\ clientAcceptsGzip THEN "gzip"
    ELSE IF clientAcceptsBr /\ largeEnough /\ ~overloaded THEN "br"
    ELSE IF clientAcceptsGzip THEN "gzip" ELSE IF clientAcceptsBr THEN "br" ELSE ""

\* lines 64-72: the stored entry replayed as a HIT
HitResponse_noHeader(base, e) ==
    [base EXCEPT !.done = TRUE, !.xcache = "HIT", !.ctype = e.contentType,
        !.status = e.statusCode, !.body = e.body, !.sends = 1, !.onHit = 1,
        !.events = <<"send", "onHit">>]
HitResponse(base, e) ==
    [base EXCEPT !.done = TRUE, !.xcache = "HIT", !.ctype = e.contentType,
        !.enc = e.contentEncoding, !.vary = (e.contentEncoding # ""),
        !.status = e.statusCode, !.body = e.body, !.sends = 1, !.onHit = 1,
        !.events = <<"send", "onHit">>]

\* line 70 and line 75: revalidate only an entry getWithTTL reports stale
TriggersRevalidate_always(ttl) == ccfg.swr = "on"
TriggersRevalidate(ttl) == ttl <= 0 /\ ccfg.swr = "on"

\* lines 99 and 170-173: the callback threw while it was being called
RevalidateThrew(hit) ==
    [hit EXCEPT !.revalCalls = 1, !.bgFail = 1, !.onError = 1, !.nextErr = 1,
        !.events = hit.events \o <<"revalidate", "onError", "next(error)">>]

\* lines 49-104 and 106-169 up to next(): the lookup.  cb is how the
\* revalidate callback behaves when it is called: it throws, or it returns a
\* promise that is settled later.
\* A new request is handled in the lowest free slot (slots have no identity).
FreeSlot(r) ==
    /\ creq[r].pc = "idle"
    /\ \A q \in CSlots : q < r => creq[q].pc # "idle"

CacheLookup(r, k, accept, cb) ==
    /\ FreeSlot(r)
    /\ ccfg.cache
    /\ ngets < MaxGets
    /\ ngets' = ngets + 1
    /\ LET present == HasEntry(cache, k)
           base == [EmptyResp EXCEPT !.key = k, !.present = present,
                       !.accept = accept, !.method = "GET", !.bypass = "none",
                       !.store = IF present THEN <<"getWithTTL">>
                                 ELSE <<"getWithTTL", "get">>,
                       !.ttlLeft = IF present THEN EntryTtl(cache, k, now) ELSE 0,
                       !.expect = content[k], !.inval = inval[k],
                       !.afterReval = revalMark[k],
                       !.revalAge = IF revalMark[k].on THEN now - revalMark[k].at
                                    ELSE 0]
       IN IF present
          THEN LET e == cache[k]
                   hit == HitResponse(base, e)
               IN /\ cache' = cache
                  /\ IF TriggersRevalidate(EntryTtl(cache, k, now))
                     THEN IF cb = "throw"
                          THEN /\ clast' = RevalidateThrew(hit)
                               /\ creq' = creq
                          ELSE /\ clast' = clast
                               /\ creq' = [creq EXCEPT ![r] =
                                    [IdleCReq EXCEPT !.pc = "reval", !.key = k,
                                        !.cachedType = e.contentType,
                                        !.cachedStatus = e.statusCode,
                                        !.rsp = [hit EXCEPT !.revalCalls = 1,
                                           !.events = hit.events \o <<"revalidate">>]]]
                     ELSE /\ cb = "async"
                          /\ clast' = hit
                          /\ creq' = creq
          ELSE /\ cb = "async"
               /\ IF GetLive(cache, k, now)
                  THEN /\ clast' = HitResponse(base, cache[k])
                       /\ creq' = creq
                  ELSE /\ clast' = clast
                       /\ creq' = [creq EXCEPT ![r] =
                             [IdleCReq EXCEPT !.pc = "handler", !.key = k,
                                 !.accept = accept,
                                 !.rsp = [base EXCEPT !.next = 1, !.handlerCalls = 1,
                                                      !.wrapped = TRUE,
                                                      !.events = <<"next">>]]]
               /\ cache' = GetMap(cache, k, now)
    /\ inval' = [inval EXCEPT ![k] = NoInval]
    /\ revalMark' = [revalMark EXCEPT ![k] = NoMark]
    /\ UNCHANGED <<now, rlVars, ccfg, content>>

\* lines 146-152: what the wrapped res.send stores
MissEntry_raw(raw, payload, status, contentType, algo) ==
    [body |-> Plain(raw), statusCode |-> status, contentType |-> contentType,
     contentEncoding |-> algo, ttlMs |-> ttlMs]
MissEntry(raw, payload, status, contentType, algo) ==
    [body |-> payload, statusCode |-> status, contentType |-> contentType,
     contentEncoding |-> algo, ttlMs |-> ttlMs]

\* lines 107-167: the handler calls the wrapped res.send(body)
HandlerSend(r, out, overloaded) ==
    /\ creq[r].pc = "handler"
    /\ LET k == creq[r].key
           contentType == IF out.ct = <<>> THEN "application/json" ELSE out.ct[1]
           raw == ToRaw(out.body)
           largeEnough == Len(raw) >= minSizeBytes
           algo == PickAlgo(ccfg.compression, largeEnough, creq[r].accept.br,
                            creq[r].accept.gzip, overloaded)
           payload == IF algo # "" THEN Compress(algo, raw) ELSE Plain(raw)
           sent == IF algo # "" THEN payload ELSE Plain(raw)
       IN /\ cache' = MapPut(cache, k,
                 SetEntry(MissEntry(raw, payload, out.status, contentType, algo), now))
          /\ clast' =
                 [creq[r].rsp EXCEPT !.done = TRUE, !.xcache = "MISS",
                     !.onCacheSet = 1, !.onMiss = 1, !.ctype = contentType,
                     !.enc = algo, !.vary = (algo # ""), !.status = out.status,
                     !.body = sent, !.sends = 1, !.overloaded = overloaded,
                     !.store = @ \o <<"set">>,
                     !.events = @ \o <<"store.set", "onCacheSet", "onMiss", "send">>]
          /\ content' = [content EXCEPT ![k] = [status |-> out.status, body |-> sent]]
          /\ revalMark' = [revalMark EXCEPT ![k] = NoMark]
    /\ creq' = [creq EXCEPT ![r] = IdleCReq]
    /\ UNCHANGED <<now, rlVars, ccfg, inval, ngets>>

\* lines 77-93: what the set closure of a revalidation stores
RevalEntry_noTtl(value, cachedType, cachedStatus) ==
    [body |-> Plain(ToRaw(value.body)),
     statusCode |-> IF value.statusCode # <<>> THEN value.statusCode[1] ELSE cachedStatus,
     contentType |-> IF value.contentType # <<>> THEN value.contentType[1] ELSE cachedType,
     contentEncoding |-> "", ttlMs |-> 0]
RevalEntry(value, cachedType, cachedStatus) ==
    [body |-> Plain(ToRaw(value.body)),
     statusCode |-> IF value.statusCode # <<>> THEN value.statusCode[1] ELSE cachedStatus,
     contentType |-> IF value.contentType # <<>> THEN value.contentType[1] ELSE cachedType,
     contentEncoding |-> "", ttlMs |-> ttlForSetMs]

\* lines 77-97: the callback calls set(value); the store write may fail
RevalSet(r, value, fail) ==
    /\ creq[r].pc = "reval"
    /\ ~creq[r].setDone
    /\ LET k == creq[r].key
           v == RevalEntry(value, creq[r].cachedType, creq[r].cachedStatus)
       IN IF fail
          THEN /\ creq' = [creq EXCEPT ![r].setDone = TRUE,
                              ![r].rsp.onError = @ + 1, ![r].rsp.bgFail = @ + 1,
                              ![r].rsp.events = @ \o <<"onError">>]
               /\ UNCHANGED <<cache, content, revalMark>>
          ELSE /\ cache' = MapPut(cache, k, SetEntry(v, now))
               /\ content' = [content EXCEPT ![k] =
                                 [status |-> v.statusCode, body |-> v.body]]
               /\ revalMark' = [revalMark EXCEPT ![k] =
                                 [on |-> TRUE, body |-> Plain(ToRaw(value.body)),
                                  at |-> now]]
               /\ creq' = [creq EXCEPT ![r].setDone = TRUE]
    /\ UNCHANGED <<now, rlVars, ccfg, inval, clast, ngets>>

\* line 99: the promise the callback returned is fulfilled
RevalResolve(r) ==
    /\ creq[r].pc = "reval"
    /\ clast' = creq[r].rsp
    /\ creq' = [creq EXCEPT ![r] = IdleCReq]
    /\ UNCHANGED <<now, rlVars, ccfg, cache, content, inval, revalMark, ngets>>

\* lines 99-101: the promise the callback returned is rejected
RevalReject(r) ==
    /\ creq[r].pc = "reval"
    /\ clast' = [creq[r].rsp EXCEPT !.onError = @ + 1, !.bgFail = @ + 1,
                                    !.events = @ \o <<"onError">>]
    /\ creq' = [creq EXCEPT ![r] = IdleCReq]
    /\ UNCHANGED <<now, rlVars, ccfg, cache, content, inval, revalMark, ngets>>

\* invalidateCache / invalidateMatchingGet with MemoryStore.delete: the key
\* of the matching GET is deleted, then next()
InFlight(k) == \E r \in CSlots : creq[r].key = k /\ creq[r].pc = "handler"
Revalidating(k) == \E r \in CSlots : creq[r].key = k /\ creq[r].pc = "reval"
DeleteKey_keep(m, k) == m
DeleteKey(m, k) == MapDel(m, k)
Invalidate(k) ==
    /\ cache' = DeleteKey(cache, k)
    /\ content' = [content EXCEPT ![k] = NoContent]
    /\ revalMark' = [revalMark EXCEPT ![k] = NoMark]
    /\ inval' = [inval EXCEPT ![k] =
                   IF InFlight(k) THEN NoInval
                   ELSE [state |-> IF Revalidating(k) THEN "reval" ELSE "quiet",
                         fresh |-> GetLive(cache, k, now)]]
    /\ UNCHANGED <<now, rlVars, ccfg, creq, clast, ngets>>

CacheQuiet ==
    /\ cache = EmptyMap
    /\ creq = [r \in CSlots |-> IdleCReq]
    /\ clast = EmptyResp
    /\ content = [k \in CKeys |-> NoContent]
    /\ inval = [k \in CKeys |-> NoInval]
    /\ revalMark = [k \in CKeys |-> NoMark]
    /\ ngets = 0

InitRL ==
    /\ now = 0
    /\ cfg \in Configs
    /\ ccfg = [cache |-> TRUE, compression |-> "auto", swr |-> "none",
               revalTtl |-> <<>>]
    /\ CacheQuiet
    /\ counters = EmptyMap
    /\ tokenBuckets = EmptyMap
    /\ slidingWindows = EmptyMap
    /\ rl = [r \in RLSlots |-> IdleReq]
    /\ hist = <<>>
    /\ last = NoResponse
    /\ skew = FALSE

\* ---------------------------------------------------------- specifications
\* Spec: the rate limiter under any of the three strategies, one client key.
Init == InitRL

Next ==
    \/ Tick
    \/ \E r \in RLSlots, fail \in BOOLEAN : FixedRequest(r, MainKey, fail)
    \/ \E r \in RLSlots : SlidingStart(r, MainKey)
    \/ \E r \in RLSlots, fail \in BOOLEAN : SlidingStore(r, fail)
    \/ \E r \in RLSlots : TBStart(r, MainKey)
    \/ \E r \in RLSlots, fail \in BOOLEAN : TBGet(r, fail)
    \/ \E r \in RLSlots, fail \in BOOLEAN : TBSet(r, fail)

Spec == Init /\ [][Next]_vars

\* SpecFixed, SpecSliding, SpecBucket: one strategy each, two client keys.
InitFixed == InitRL /\ cfg.strategy = "fixed_window"
NextFixed ==
    \/ Tick
    \/ \E r \in RLSlots, k \in Keys, fail \in BOOLEAN : FixedRequest(r, k, fail)
SpecFixed == InitFixed /\ [][NextFixed]_vars

InitSliding == InitRL /\ cfg.strategy = "sliding_window"
NextSliding ==
    \/ Tick
    \/ \E r \in RLSlots, k \in Keys : SlidingStart(r, k)
    \/ \E r \in RLSlots, fail \in BOOLEAN : SlidingStore(r, fail)
SpecSliding == InitSliding /\ [][NextSliding]_vars

InitBucket == InitRL /\ cfg.strategy = "token_bucket"
NextBucket ==
    \/ Tick
    \/ \E r \in RLSlots, k \in Keys : TBStart(r, k)
    \/ \E r \in RLSlots, fail \in BOOLEAN : TBGet(r, fail)
    \/ \E r \in RLSlots, fail \in BOOLEAN : TBSet(r, fail)
SpecBucket == InitBucket /\ [][NextBucket]_vars
\* SpecCache: the cache middleware and the invalidation middleware over
\* MemoryStore; the rate limiter is not mounted.  Clients send no
\* Accept-Encoding or "br, gzip" and the CPU is not overloaded; SpecPath
\* covers the other cases.
InitCache ==
    /\ now = 0
    /\ cfg = [store |-> "memory", strategy |-> "fixed_window", requests |-> 1,
              burst |-> <<>>, refill |-> <<>>]
    /\ counters = EmptyMap
    /\ tokenBuckets = EmptyMap
    /\ slidingWindows = EmptyMap
    /\ rl = [r \in RLSlots |-> IdleReq]
    /\ hist = <<>>
    /\ last = NoResponse
    /\ skew = FALSE
    /\ ccfg \in CacheConfigs
    /\ CacheQuiet

NextCache ==
    \/ Tick
    \/ \E r \in CSlots, k \in CKeys, a \in {NoAccept, BothAccept},
             cb \in {"throw", "async"} :
          /\ HasEntry(cache, k) => a = NoAccept
          /\ CacheLookup(r, k, a, cb)
    \/ \E r \in CSlots, out \in HandlerOutputs : HandlerSend(r, out, FALSE)
    \/ \E r \in CSlots, v \in RevalValues, fail \in BOOLEAN : RevalSet(r, v, fail)
    \/ \E r \in CSlots : RevalResolve(r)
    \/ \E r \in CSlots : RevalReject(r)
    \/ \E k \in CKeys : Invalidate(k)
SpecCache == InitCache /\ [][NextCache]_vars

\* ================================================================ claims
KeyHist(k) == SelectSeq(hist, LAMBDA e : e.key = k)
LastDecided == last.outcome \in {"allowed", "blocked"}

\* The fixed-window rule as the claim states it, over the request times of one
\* key: start is the time of the first request of the current window (-1 when
\* there is none yet), count the requests seen in it.
RECURSIVE FixedExpect(_, _, _)
FixedExpect(h, start, count) ==
    IF h = <<>> THEN <<>>
    ELSE LET fresh == start < 0 \/ h[1].t >= start + windowMs
             s2 == IF fresh THEN h[1].t ELSE start
             c2 == IF fresh THEN 1 ELSE count + 1
         IN <<[allowed |-> c2 <= requests, count |-> c2, start |-> s2]>>
              \o FixedExpect(Tail(h), s2, c2)

\* C1: under fixed_window with MemoryStore, for every key the first N requests
\* of a window are allowed and every further one in that window is blocked; the
\* first request at or after W from the window's first request is allowed again
\* and opens a new window with count 1.
C1_FixedWindow ==
    /\ \A k \in Keys :
         LET h == KeyHist(k)
             e == FixedExpect(h, -1, 0)
         IN \A i \in 1..Len(h) : h[i].allowed = e[i].allowed
    /\ (LastDecided /\ hist # <<>>) =>
         LET h == KeyHist(last.key)
         IN last.hitsNum = FixedExpect(h, -1, 0)[Len(h)].count

\* C1 witness: a key used its quota, had a request blocked, and exactly W after
\* the window's first request was allowed again with count 1.
C1_Witness ==
    /\ LastDecided
    /\ LET h == KeyHist(MainKey)
       IN /\ Len(h) >= 3
          /\ h[Len(h)].t = h[1].t + windowMs
          /\ h[Len(h)].allowed
          /\ \E i \in 2..(Len(h) - 1) : ~h[i].allowed
          /\ last.key = MainKey /\ last.hitsNum = 1

\* C2: token bucket from an absent bucket: B back-to-back requests are allowed
\* and the next is blocked; after idling exactly the time in which k tokens
\* accrue (0 < k < B, shorter than the record TTL), exactly k further
\* back-to-back requests are allowed and the (k+1)-th is blocked.  Stated for
\* runs in which no request saw the clock advance while it was handled.
IdleTicks(k) == (k * TokenUnit) \div tokensPerTick
C2_BurstThenRefill ==
    ~skew => \A key \in Keys :
      LET h == KeyHist(key)
          B == maxTokens
      IN (Len(h) >= B + 1 /\ \A i \in 1..(B + 1) : h[i].t = h[1].t) =>
           /\ \A i \in 1..B : h[i].allowed
           /\ ~h[B + 1].allowed
           /\ \A k \in 1..(B - 1) :
                ( /\ (k * TokenUnit) % tokensPerTick = 0
                  /\ IdleTicks(k) < windowMs
                  /\ \A i \in (B + 2)..Len(h) : h[i].t = h[1].t + IdleTicks(k) )
                => \A i \in (B + 2)..Len(h) :
                     h[i].allowed = (i <= B + 1 + k)

\* C3: under sliding_window with MemoryStore, at most N requests of a key are
\* allowed in any trailing interval (t - W, t], and the count a decision uses
\* is the number of requests of the key received in that interval.  Stated for
\* runs in which no request saw the clock advance while it was handled.
AllowedInTrailing(k, t) ==
    Cardinality({j \in 1..Len(hist) :
        hist[j].key = k /\ hist[j].allowed /\ hist[j].t > t - windowMs /\ hist[j].t <= t})
ReceivedInTrailing(k, t) ==
    Cardinality({j \in 1..Len(hist) :
        hist[j].key = k /\ hist[j].t > t - windowMs /\ hist[j].t <= t})
C3_SlidingTrailing ==
    ~skew =>
    /\ \A i \in 1..Len(hist) : AllowedInTrailing(hist[i].key, hist[i].t) <= requests
    /\ (LastDecided /\ hist # <<>>) =>
         last.hitsNum = ReceivedInTrailing(last.key, hist[Len(hist)].t)

\* C10: when a store operation of the rate limiter fails, the request is
\* neither allowed nor blocked: next(error) is called exactly once, no 429 is
\* sent, next() is not called without an error, onError is called once, and the
\* failed operation was called once (no retry).
CountOf(s, x) == Cardinality({i \in 1..Len(s) : s[i] = x})
C10_StoreErrorForwarded ==
    last.failed # "" =>
      /\ last.outcome = "error"
      /\ last.nextErr = 1 /\ last.next = 0
      /\ last.status # 429
      /\ last.onError = 1 /\ last.onAllowed = 0 /\ last.onBlocked = 0
      /\ CountOf(last.calls, last.failed) = 1
      /\ last.calls[Len(last.calls)] = last.failed

\* C10 witness: setTokens failed after getTokens had succeeded.
C10_Witness ==
    /\ last.failed = "setTokens"
    /\ last.calls = <<"getTokens", "setTokens">>
    /\ last.nextErr = 1

\* ------------------------------------------------------------ cache claims
\* Every response the cache middleware has produced or is producing
CResponses == {clast} \cup {creq[r].rsp : r \in CSlots}
Before(events, a, b) ==
    \E i, j \in 1..Len(events) : i < j /\ events[i] = a /\ events[j] = b

\* C4: a GET that finds no entry under its key invokes the handler once and is
\* marked MISS; a GET that finds an entry whose TTL has not elapsed is marked
\* HIT, carries the status and the body bytes of the response that stored the
\* entry, and does not invoke the handler.
C4_HitReplaysMiss ==
    \A x \in CResponses :
      /\ (x.done /\ ~x.present) =>
           x.xcache = "MISS" /\ x.handlerCalls = 1 /\ x.next = 1
      /\ (x.present /\ x.ttlLeft > 0) =>
           /\ x.xcache = "HIT"
           /\ x.handlerCalls = 0 /\ x.next = 0
           /\ x.status = x.expect.status
           /\ x.body = x.expect.body

\* C4 witness: a HIT within the TTL replayed a 404 whose body the MISS had
\* sent brotli-compressed.
C4_Witness ==
    /\ clast.xcache = "HIT" /\ clast.present /\ clast.ttlLeft > 0
    /\ clast.handlerCalls = 0
    /\ clast.status = 404 /\ clast.expect.status = 404
    /\ clast.body = Compress("br", JsonStringify(<<1>>))
    /\ clast.body = clast.expect.body

\* C5: with MemoryStore and SWR not enabled, a GET for a key whose entry was
\* stored more than ttl ago is a MISS, invokes the handler again and does not
\* replay the expired entry.
C5_ExpiredIsMiss ==
    ccfg.swr = "none" =>
      \A x \in CResponses :
        (x.done /\ x.present /\ x.ttlLeft < 0) =>
           x.xcache = "MISS" /\ x.handlerCalls = 1

\* C6 as stated: after an invalidation deleted the key while no request for the
\* key was being handled, the next GET for the key is a MISS that invokes the
\* handler.
C6_InvalidateThenMiss ==
    \A x \in CResponses :
      (x.done /\ x.inval.state \in {"quiet", "reval"}) =>
         x.xcache = "MISS" /\ x.handlerCalls = 1

\* C6 amended: after an invalidation deleted the key while no request for the
\* key was being handled and no SWR revalidation for the key was pending, the
\* next GET for the key finds no entry and is a MISS that invokes the handler.
C6_InvalidateThenMissQuiet ==
    \A x \in CResponses :
      (x.inval.state = "quiet" /\ x.key # "") =>
         /\ ~x.present
         /\ x.handlerCalls = 1 /\ x.next = 1
         /\ x.done => x.xcache = "MISS"

\* C6 witness: an invalidation removed an entry whose TTL had not elapsed, and
\* the next GET was a MISS.
C6_Witness ==
    /\ clast.inval = [state |-> "quiet", fresh |-> TRUE]
    /\ clast.xcache = "MISS" /\ clast.handlerCalls = 1

\* C7: with SWR enabled and a revalidate callback, a GET that finds an entry
\* with ttlMs <= 0 sends the stale stored body as a HIT before the callback is
\* invoked and invokes the callback exactly once; a GET that finds an entry
\* with ttlMs > 0 does not invoke it.
C7_StaleServedThenRevalidated ==
    ccfg.swr = "on" =>
      \A x \in CResponses :
        x.present =>
          /\ x.xcache = "HIT" /\ x.body = x.expect.body /\ x.sends = 1
          /\ x.ttlLeft <= 0 =>
               /\ x.revalCalls = 1
               /\ CountOf(x.events, "revalidate") = 1
               /\ Before(x.events, "send", "revalidate")
          /\ x.ttlLeft > 0 =>
               x.revalCalls = 0 /\ CountOf(x.events, "revalidate") = 0

\* C7 witness: a stale entry was served as a HIT and its revalidation, called
\* once, completed.
C7_Witness ==
    /\ ccfg.swr = "on"
    /\ clast.xcache = "HIT" /\ clast.present /\ clast.ttlLeft <= 0
    /\ clast.revalCalls = 1 /\ clast.bgFail = 0
    /\ clast.events = <<"send", "onHit", "revalidate">>

\* C8: after a revalidation's set stored a new body, the next GET for the key
\* within the revalidation TTL, with no other write in between, is a HIT that
\* carries the new body uncompressed, is not stale and triggers no
\* revalidation.
C8_RevalidatedBodyServed ==
    \A x \in CResponses :
      (x.afterReval.on /\ x.revalAge < ttlForSetMs) =>
         /\ x.xcache = "HIT" /\ x.handlerCalls = 0
         /\ x.body = x.afterReval.body /\ x.enc = ""
         /\ x.ttlLeft > 0
         /\ x.revalCalls = 0

\* C8 witness: the GET after a revalidation served the revalidated JSON body
\* with the status the callback gave.
C8_Witness ==
    /\ clast.afterReval.on /\ clast.revalAge < ttlForSetMs
    /\ clast.xcache = "HIT" /\ clast.revalCalls = 0
    /\ clast.body = Plain(JsonStringify(<<3>>)) /\ clast.status = 201

\* C9: a failure of the SWR background path (the callback throws, its promise
\* rejects, or its set fails in the store) is reported to onError once per
\* failure and does not touch the request that triggered it: no next(error),
\* no next(), and nothing sent beyond the one HIT response.
C9_BackgroundFailureIsolated ==
    \A x \in CResponses :
      x.bgFail > 0 =>
        /\ x.onError = x.bgFail
        /\ x.nextErr = 0 /\ x.next = 0
        /\ x.sends = 1 /\ x.xcache = "HIT"

\* ------------------------------------------------ rate limiter, continued
TooManyRequests == "{\"error\":\"Too Many Requests\"}"
Precedes(events, a, b) ==
    \A j \in 1..Len(events) : events[j] = b =>
       \E i \in 1..(j - 1) : events[i] = a

\* C11: a request the rate limiter blocks is answered with status 429 and the
\* body {error: 'Too Many Requests'} and next is not called for it; a request
\* it allows is passed on by exactly one next() call, its body and status
\* untouched.
C11_BlockedTerminated ==
    /\ last.outcome = "blocked" =>
         /\ last.status = 429 /\ last.body = TooManyRequests
         /\ last.next = 0 /\ last.nextErr = 0
         /\ CountOf(last.events, "next") = 0
         /\ CountOf(last.events, "json") = 1
    /\ last.outcome = "allowed" =>
         /\ last.next = 1 /\ last.nextErr = 0
         /\ CountOf(last.events, "next") = 1
         /\ last.body = "" /\ last.status = 200
         /\ CountOf(last.events, "json") = 0 /\ CountOf(last.events, "status") = 0
    /\ (hist # <<>> /\ LastDecided) =>
         hist[Len(hist)].allowed = (last.status # 429)

\* C11 witness: a request was blocked with 429 after earlier requests of the
\* key had been allowed.
C11_Witness ==
    /\ last.outcome = "blocked" /\ last.status = 429
    /\ last.body = TooManyRequests /\ last.next = 0
    /\ Len(hist) >= 2 /\ hist[1].allowed /\ ~hist[Len(hist)].allowed

\* C12: every decision, allowed or blocked, under each strategy, has set
\* X-RateLimit-Limit, -Remaining and -Reset before the 429 or next(): Limit is
\* the configured quota, Remaining the result's remaining, and Reset the least
\* whole number of seconds not below ttlMs / 1000.
C12_HeadersOnEveryDecision ==
    LastDecided =>
      LET n == last.ttlNum * WindowSeconds
          dd == last.ttlDen * WindowTicks
      IN /\ last.hdrLimit = requests
         /\ last.hdrRemaining = last.remaining /\ last.hdrRemaining >= 0
         /\ last.hdrReset * dd >= n
         /\ (last.hdrReset - 1) * dd < n
         /\ \A h \in {"X-RateLimit-Limit", "X-RateLimit-Remaining", "X-RateLimit-Reset"} :
              /\ CountOf(last.events, h) = 1
              /\ Precedes(last.events, h, "status")
              /\ Precedes(last.events, h, "json")
              /\ Precedes(last.events, h, "next")

\* C12 witness: a token-bucket request was blocked with a reset time that is
\* not a whole number of seconds, so the header is rounded up.
C12_Witness ==
    /\ cfg.strategy = "token_bucket" /\ last.outcome = "blocked"
    /\ last.hdrLimit = requests
    /\ last.hdrReset * last.ttlDen * WindowTicks > last.ttlNum * WindowSeconds

\* ------------------------------------------- cacheMiddleware, other paths
Methods == {"GET", "POST"}
Bypasses == {"none", "shouldBypass", "bypassPaths"}

\* lines 49-55: the request is not looked up: the cache option is off, the
\* method is not GET, shouldBypass(req) holds or a bypassPaths entry matches
PassesThrough(method, bypass) ==
    \/ ~ccfg.cache
    \/ method # "GET"
    \/ bypass # "none"

\* lines 49-55: return next(), nothing else
PassResponse_lookup(k, method, bypass) ==
    [EmptyResp EXCEPT !.key = k, !.method = method, !.bypass = bypass,
        !.next = 1, !.handlerCalls = 1, !.store = <<"getWithTTL", "get">>,
        !.events = <<"next">>]
PassResponse(k, method, bypass) ==
    [EmptyResp EXCEPT !.key = k, !.method = method, !.bypass = bypass,
        !.next = 1, !.handlerCalls = 1, !.events = <<"next">>]

PassThrough(r, k, method, bypass) ==
    /\ FreeSlot(r)
    /\ ngets < MaxGets
    /\ PassesThrough(method, bypass)
    /\ ngets' = ngets + 1
    /\ creq' = [creq EXCEPT ![r] =
          [IdleCReq EXCEPT !.pc = "plain", !.key = k,
              !.rsp = PassResponse(k, method, bypass)]]
    /\ UNCHANGED <<now, rlVars, ccfg, cache, clast, content, inval, revalMark>>

\* The handler of a request that passed through calls res.send, which is
\* Express's own: the body goes out as the handler gave it
PlainResponse_marked(rsp, out) ==
    [rsp EXCEPT !.done = TRUE, !.status = out.status, !.xcache = "MISS",
        !.body = Plain(ToRaw(out.body)), !.sends = 1,
        !.ctype = IF out.ct = <<>> THEN "" ELSE out.ct[1],
        !.events = @ \o <<"send">>]
PlainResponse(rsp, out) ==
    [rsp EXCEPT !.done = TRUE, !.status = out.status,
        !.body = Plain(ToRaw(out.body)), !.sends = 1,
        !.ctype = IF out.ct = <<>> THEN "" ELSE out.ct[1],
        !.events = @ \o <<"send">>]

PlainSend(r, out) ==
    /\ creq[r].pc = "plain"
    /\ clast' = PlainResponse(creq[r].rsp, out)
    /\ creq' = [creq EXCEPT ![r] = IdleCReq]
    /\ UNCHANGED <<now, rlVars, ccfg, cache, content, inval, revalMark, ngets>>

\* Where the wrapped res.send may throw: zlib (lines 136-143), store.set
\* (146), the onCacheSet hook (153), the onMiss hook (155)
Faults == {"compress", "store.set", "onCacheSet", "onMiss"}
Stored(at) == at \in {"onCacheSet", "onMiss"}

\* lines 163-166: onError, then originalSend(body)
FailResponse_lost(rsp, out, at) ==
    [rsp EXCEPT !.done = TRUE, !.fault = at, !.orig = out.body,
        !.status = out.status, !.onError = 1,
        !.onCacheSet = IF Stored(at) THEN 1 ELSE 0,
        !.onMiss = IF at = "onMiss" THEN 1 ELSE 0,
        !.xcache = IF at = "onMiss" THEN "MISS" ELSE "",
        !.events = @ \o <<at, "onError">>]
FailResponse(rsp, out, at) ==
    [rsp EXCEPT !.done = TRUE, !.fault = at, !.orig = out.body,
        !.status = out.status, !.onError = 1,
        !.onCacheSet = IF Stored(at) THEN 1 ELSE 0,
        !.onMiss = IF at = "onMiss" THEN 1 ELSE 0,
        !.xcache = IF at = "onMiss" THEN "MISS" ELSE "",
        !.ctype = IF out.ct = <<>> THEN "" ELSE out.ct[1],
        !.body = Plain(ToRaw(out.body)), !.sends = 1,
        !.store = IF at = "compress" THEN @ ELSE @ \o <<"set">>,
        !.events = @ \o <<at, "onError", "send">>]

\* lines 107-166 when something in the try block throws at `at`
HandlerSendFails(r, out, overloaded, at) ==
    /\ creq[r].pc = "handler"
    /\ LET k == creq[r].key
           contentType == IF out.ct = <<>> THEN "application/json" ELSE out.ct[1]
           raw == ToRaw(out.body)
           largeEnough == Len(raw) >= minSizeBytes
           algo == PickAlgo(ccfg.compression, largeEnough, creq[r].accept.br,
                            creq[r].accept.gzip, overloaded)
           payload == IF algo # "" THEN Compress(algo, raw) ELSE Plain(raw)
       IN /\ at = "compress" => algo # ""
          /\ IF Stored(at)
             THEN /\ cache' = MapPut(cache, k,
                     SetEntry(MissEntry(raw, payload, out.status, contentType, algo), now))
                  /\ content' = [content EXCEPT ![k] =
                                    [status |-> out.status, body |-> payload]]
                  /\ revalMark' = [revalMark EXCEPT ![k] = NoMark]
             ELSE UNCHANGED <<cache, content, revalMark>>
          /\ clast' = FailResponse([creq[r].rsp EXCEPT !.overloaded = overloaded],
                                   out, at)
    /\ creq' = [creq EXCEPT ![r] = IdleCReq]
    /\ UNCHANGED <<now, rlVars, ccfg, inval, ngets>>

\* SpecPath: the cache middleware without SWR and invalidation, with every
\* compression mode, every Accept-Encoding, requests that pass through, and
\* failures inside the wrapped res.send, all within one clock tick (entries
\* do not expire; expiry is SpecCache's subject).
PathConfigs ==
    [cache : BOOLEAN, compression : {"off", "br", "gzip", "auto"},
     swr : {"none"}, revalTtl : {<<>>}]
PathOutputs ==
    HandlerOutputs \cup
      {[body |-> Buf(<<1, 2>>), status |-> 200, ct |-> <<"application/octet-stream">>]}
InitPath ==
    /\ now = 0
    /\ cfg = [store |-> "memory", strategy |-> "fixed_window", requests |-> 1,
              burst |-> <<>>, refill |-> <<>>]
    /\ counters = EmptyMap
    /\ tokenBuckets = EmptyMap
    /\ slidingWindows = EmptyMap
    /\ rl = [r \in RLSlots |-> IdleReq]
    /\ hist = <<>>
    /\ last = NoResponse
    /\ skew = FALSE
    /\ ccfg \in PathConfigs
    /\ CacheQuiet
NextPath ==
    \/ \E r \in CSlots, k \in CKeys, a \in Accepts : CacheLookup(r, k, a, "async")
    \/ \E r \in CSlots, out \in PathOutputs, ov \in BOOLEAN : HandlerSend(r, out, ov)
    \/ \E r \in CSlots, out \in PathOutputs, ov \in BOOLEAN, at \in Faults :
          HandlerSendFails(r, out, ov, at)
    \/ \E r \in CSlots, k \in CKeys, m \in Methods, b \in Bypasses :
          PassThrough(r, k, m, b)
    \/ \E r \in CSlots, out \in PathOutputs : PlainSend(r, out)
SpecPath == InitPath /\ [][NextPath]_vars

\* The decision table of the codec choice: "" stands for no compression
CodecTable(mode, large, br, gz, overloaded) ==
    CASE mode = "off" \/ ~large -> ""
      [] mode = "br" -> (CASE br -> "br" [] ~br /\ gz -> "gzip" [] OTHER -> "")
      [] mode = "gzip" -> (CASE gz -> "gzip" [] OTHER -> "")
      [] OTHER -> (CASE gz /\ ~br -> "gzip"
                     [] br /\ ~overloaded -> "br"
                     [] br /\ overloaded /\ gz -> "gzip"
                     [] br /\ overloaded /\ ~gz -> "br"
                     [] OTHER -> "")
Captured(x) == x.xcache = "MISS" /\ x.done /\ x.fault = ""

\* C13: the codec a miss is stored and sent with equals the decision table for
\* every mode, payload size below or at-or-above minSizeBytes, accepted
\* encodings and CPU-overload reading.
C13_CodecDecisionTable ==
    \A x \in CResponses :
      Captured(x) =>
        /\ x.enc = CodecTable(ccfg.compression, Len(x.body.data) >= minSizeBytes,
                              x.accept.br, x.accept.gzip, x.overloaded)
        /\ x.body.enc = (IF x.enc = "" THEN "identity" ELSE x.enc)
        /\ x.vary = (x.enc # "")

\* C13 witness: mode auto, both encodings accepted, CPU overloaded, a payload
\* of exactly minSizeBytes: gzip.
C13_Witness ==
    /\ Captured(clast) /\ ccfg.compression = "auto"
    /\ clast.accept = BothAccept /\ clast.overloaded
    /\ Len(clast.body.data) = minSizeBytes
    /\ clast.enc = "gzip"

\* C14: a GET whose Accept-Encoding has gzip but not br is never answered with
\* Content-Encoding: br, on the miss path and on the hit path, whatever
\* requests came before; a payload of at least minSizeBytes is answered with
\* Content-Encoding: gzip (compression not off).
C14_GzipOnlyNeverBr ==
    \A x \in CResponses :
      (x.done /\ x.method = "GET" /\ x.bypass = "none" /\ x.fault = ""
         /\ x.accept = [br |-> FALSE, gzip |-> TRUE]) =>
        /\ x.enc # "br"
        /\ (ccfg.compression # "off" /\ Len(x.body.data) >= minSizeBytes) =>
              x.enc = "gzip"

\* C15: a GET that matches shouldBypass or a bypassPaths entry makes no store
\* call, gets no X-Cache header, runs its handler, and leaves the cache
\* contents as they were.
BypassedGet(x) == x.method = "GET" /\ x.bypass \in {"shouldBypass", "bypassPaths"}
C15_State ==
    \A x \in CResponses :
      BypassedGet(x) =>
        /\ x.store = <<>> /\ x.xcache = ""
        /\ x.next = 1 /\ x.handlerCalls = 1
        /\ x.onHit = 0 /\ x.onMiss = 0 /\ x.onCacheSet = 0
C15_Step ==
    \A r \in CSlots :
      (BypassedGet(creq[r].rsp) \/ BypassedGet(creq'[r].rsp)) /\ creq'[r] # creq[r]
         => cache' = cache
C15_BypassNoStoreAccess == []C15_State /\ [][C15_Step]_vars

\* C15 witness: a GET matching bypassPaths was answered by its handler while
\* an entry for its key sat in the cache.
C15_Witness ==
    /\ clast.done /\ clast.method = "GET" /\ clast.bypass = "bypassPaths"
    /\ clast.handlerCalls = 1 /\ clast.xcache = ""
    /\ HasEntry(cache, clast.key)
    /\ ccfg.cache

\* C16: a request that is not a GET, or any request when the cache option is
\* false, passes through unmodified: one next(), res.send not wrapped, no
\* store call, no X-Cache header, the body sent as the handler gave it.
C16_NotCacheablePassesThrough ==
    \A x \in CResponses :
      (x.key # "" /\ (x.method # "GET" \/ ~ccfg.cache)) =>
        /\ x.next = 1 /\ x.nextErr = 0
        /\ ~x.wrapped
        /\ x.store = <<>>
        /\ x.xcache = ""
        /\ x.enc = "" /\ x.body.enc = "identity"

\* C16 witness: a POST was answered by its handler with the cache enabled and
\* an entry for the same path in the cache.
C16_Witness ==
    /\ ccfg.cache /\ clast.done /\ clast.method = "POST"
    /\ clast.bypass = "none"
    /\ clast.sends = 1 /\ clast.xcache = ""
    /\ HasEntry(cache, clast.key)

\* C17: when capturing, compressing or storing a miss throws synchronously,
\* the body the handler passed is sent exactly once, uncompressed, and the
\* exception is reported to onError.
C17_CaptureFailureKeepsResponse ==
    \A x \in CResponses :
      x.fault # "" =>
        /\ x.sends = 1 /\ CountOf(x.events, "send") = 1
        /\ x.body = Plain(ToRaw(x.orig))
        /\ x.enc = "" /\ ~x.vary
        /\ x.onError >= 1
        /\ x.nextErr = 0

\* C17 witness: the onMiss hook threw after a brotli payload had been stored;
\* the client got the uncompressed JSON body.
C17_Witness ==
    /\ clast.fault = "onMiss" /\ clast.sends = 1
    /\ clast.body = Plain(JsonStringify(<<1>>))
    /\ HasEntry(cache, clast.key) /\ cache[clast.key].contentEncoding = "br"
    /\ clast.onError = 1

\* ------------------------------------------- rate limiter, fallback paths
\* handleSlidingWindow lines 126-130 and handleTokenBucket lines 85-89: the
\* store lacks the capability, so the result is that of store.increment with
\* remaining = Math.max(0, requests - totalHits)
FallbackResult_raw(rec, t) ==
    [hitsNum |-> rec.count, hitsDen |-> 1,
     remaining |-> requests - rec.count,
     ttlNum |-> rec.expiresAt - t, ttlDen |-> 1]
FallbackResult(rec, t) ==
    [hitsNum |-> rec.count, hitsDen |-> 1,
     remaining |-> Max2(0, requests - rec.count),
     ttlNum |-> rec.expiresAt - t, ttlDen |-> 1]

\* rateLimitMiddleware with strategy sliding_window or token_bucket over a
\* store without the capability the strategy needs
FallbackRequest(r, k, fail) ==
    /\ \/ cfg.strategy = "sliding_window" /\ ~HasAddToWindow
       \/ cfg.strategy = "token_bucket" /\ ~HasTokenOps
    /\ CanStart(r, k)
    /\ IF fail
       THEN /\ Finish(r, CatchError(k, <<"increment">>, "increment"), now, now)
            /\ UNCHANGED counters
       ELSE LET rec == IncrementRec(counters, k, now)
            IN /\ counters' = MapPut(counters, k, rec)
               /\ Finish(r, Decide(k, FallbackResult(rec, now), <<"increment">>),
                         now, now)
    /\ UNCHANGED <<now, cfg, tokenBuckets, slidingWindows, skew, cacheVars>>

\* SpecFallback: sliding_window and token_bucket over a store that only has
\* increment, two client keys.
FallbackConfigs ==
    { c \in [store : {"basic"}, strategy : {"sliding_window", "token_bucket"},
             requests : 1..MaxQuota,
             burst : {<<>>} \cup {<<b>> : b \in 1..(MaxQuota + 1)},
             refill : {<<>>} \cup {<<q>> : q \in 1..MaxQuota}] :
        /\ c.strategy # "token_bucket" => (c.burst = <<>> /\ c.refill = <<>>)
        /\ (c.burst = <<>>) = (c.refill = <<>>)
        /\ c.burst # <<>> => c.burst[1] = c.requests + 1
        /\ c.refill # <<>> => c.refill[1] = c.requests }
InitFallback ==
    /\ now = 0
    /\ cfg \in FallbackConfigs
    /\ ccfg = [cache |-> TRUE, compression |-> "auto", swr |-> "none",
               revalTtl |-> <<>>]
    /\ CacheQuiet
    /\ counters = EmptyMap
    /\ tokenBuckets = EmptyMap
    /\ slidingWindows = EmptyMap
    /\ rl = [r \in RLSlots |-> IdleReq]
    /\ hist = <<>>
    /\ last = NoResponse
    /\ skew = FALSE
NextFallback ==
    \/ Tick
    \/ \E r \in RLSlots, k \in Keys, fail \in BOOLEAN : FallbackRequest(r, k, fail)
SpecFallback == InitFallback /\ [][NextFallback]_vars

\* What fixed_window gives for the last request of its key: decision,
\* remaining and the time left in the window
FixedRef == LET h == KeyHist(last.key) IN FixedExpect(h, -1, 0)[Len(h)]
LeastSeconds(s, ttl) ==
    /\ s * WindowTicks >= ttl * WindowSeconds
    /\ (s - 1) * WindowTicks < ttl * WindowSeconds

\* C18: over a store without addToWindow, sliding_window gives for every
\* request sequence the allow/block decision, the remaining value and the
\* reset value that fixed_window gives with the same quota and window.
C18_SlidingFallbackIsFixed ==
    (cfg.strategy = "sliding_window" /\ ~HasAddToWindow) =>
      /\ \A k \in Keys :
           LET h == KeyHist(k)
               e == FixedExpect(h, -1, 0)
           IN \A i \in 1..Len(h) : h[i].allowed = e[i].allowed
      /\ (LastDecided /\ hist # <<>>) =>
           /\ last.hitsNum = FixedRef.count /\ last.hitsDen = 1
           /\ last.hdrRemaining = Max2(0, requests - FixedRef.count)
           /\ last.ttlNum = FixedRef.start + windowMs - hist[Len(hist)].t
           /\ last.ttlDen = 1
           /\ LeastSeconds(last.hdrReset, last.ttlNum)
           /\ last.hdrLimit = requests

\* C18 witness: the sliding_window fallback blocked a request over quota with
\* remaining 0, then allowed the first request of the next window.
C18_Witness ==
    /\ cfg.strategy = "sliding_window" /\ ~HasAddToWindow
    /\ LastDecided /\ last.key = MainKey /\ last.outcome = "allowed"
    /\ last.hitsNum = 1
    /\ LET h == KeyHist(MainKey)
       IN /\ Len(h) >= 3
          /\ \E i \in 2..(Len(h) - 1) : ~h[i].allowed
          /\ h[Len(h)].t >= h[1].t + windowMs

\* C19: over a store without getTokens or setTokens, token_bucket behaves as
\* fixed_window for every request sequence and every burst: a request is
\* blocked exactly when the counter's totalHits exceeds the quota N.
C19_BucketFallbackIsFixed ==
    (cfg.strategy = "token_bucket" /\ ~HasTokenOps) =>
      /\ \A k \in Keys :
           LET h == KeyHist(k)
               e == FixedExpect(h, -1, 0)
           IN \A i \in 1..Len(h) : h[i].allowed = e[i].allowed
      /\ (LastDecided /\ hist # <<>>) =>
           (last.outcome = "blocked") = (last.hitsNum > requests * last.hitsDen)

\* C20: sliding window over MemoryStore: when the first N+1 requests of a key
\* arrive at the same instant, exactly the first N are allowed and the last is
\* blocked; and when consecutive requests of a key are all more than W apart,
\* every one of them is allowed.
SameInstant(h, n) == Len(h) >= n /\ \A i \in 1..n : h[i].t = h[1].t
FarApart(h) == \A i \in 1..(Len(h) - 1) : h[i + 1].t - h[i].t > windowMs
C20_SlidingBurstAndSpacing ==
    \A k \in Keys :
      LET h == KeyHist(k)
      IN /\ SameInstant(h, requests + 1) =>
              /\ \A i \in 1..requests : h[i].allowed
              /\ ~h[requests + 1].allowed
         /\ FarApart(h) => \A i \in 1..Len(h) : h[i].allowed

\* C20 witness: N+1 requests at one instant, the last of them blocked, and a
\* request more than W after it allowed.
C20_Witness ==
    LET h == KeyHist(MainKey)
    IN /\ Len(h) = requests + 2
       /\ SameInstant(h, requests + 1)
       /\ ~h[requests + 1].allowed
       /\ h[requests + 2].t - h[requests + 1].t > windowMs
       /\ h[requests + 2].allowed
       /\ last.key = MainKey /\ last.hitsNum = 1

\* ------------------------------------------ rate limiter, all strategies
\* SpecKeys: the rate limiter under any strategy, over MemoryStore or over a
\* store that only has increment, two client keys.
InitKeys ==
    /\ now = 0
    /\ cfg \in Configs \cup FallbackConfigs
    /\ ccfg = [cache |-> TRUE, compression |-> "auto", swr |-> "none",
               revalTtl |-> <<>>]
    /\ CacheQuiet
    /\ counters = EmptyMap
    /\ tokenBuckets = EmptyMap
    /\ slidingWindows = EmptyMap
    /\ rl = [r \in RLSlots |-> IdleReq]
    /\ hist = <<>>
    /\ last = NoResponse
    /\ skew = FALSE
NextKeys ==
    \/ Tick
    \/ \E r \in RLSlots, k \in Keys, fail \in BOOLEAN :
          cfg.store = "memory" /\ FixedRequest(r, k, fail)
    \/ \E r \in RLSlots, k \in Keys, fail \in BOOLEAN : FallbackRequest(r, k, fail)
    \/ \E r \in RLSlots, k \in Keys : SlidingStart(r, k)
    \/ \E r \in RLSlots, fail \in BOOLEAN : SlidingStore(r, fail)
    \/ \E r \in RLSlots, k \in Keys : TBStart(r, k)
    \/ \E r \in RLSlots, fail \in BOOLEAN : TBGet(r, fail)
    \/ \E r \in RLSlots, fail \in BOOLEAN : TBSet(r, fail)
SpecKeys == InitKeys /\ [][NextKeys]_vars

\* The rate-limit state the store holds for one key
Slot(m, k) == IF k \in DOMAIN m THEN <<m[k]>> ELSE <<>>
KeyState(k) == <<Slot(counters, k), Slot(tokenBuckets, k), Slot(slidingWindows, k)>>
\* The key of the request a step belongs to
StepKey ==
    IF \E r \in DOMAIN rl : rl[r].pc # "idle"
    THEN rl[CHOOSE r \in DOMAIN rl : rl[r].pc # "idle"].key
    ELSE IF \E r \in DOMAIN rl : rl'[r].pc # "idle"
    THEN rl'[CHOOSE r \in DOMAIN rl : rl'[r].pc # "idle"].key
    ELSE last'.key

\* C21: rate-limit state is per key: a step of a request with key A leaves the
\* counter, token bucket and sliding window of every other key unchanged.
C21_Step ==
    \A k \in Keys : KeyState(k)' # KeyState(k) => k = StepKey
C21_PerKeyState == [][C21_Step]_vars

\* C21 witness: key b was limited while key a held state of its own: a had
\* used its quota and been blocked, and b's first request was allowed.
C21_Witness ==
    /\ last.key = "b" /\ last.outcome = "allowed"
    /\ KeyState("a") # KeyState("b")
    /\ KeyState("a") # <<<<>>, <<>>, <<>>>>
    /\ \E i \in 1..Len(hist) : hist[i].key = "a" /\ ~hist[i].allowed

\* ------------------------------------------ cacheMiddleware, promise store
\* A CacheStore whose set returns a promise (types.ts: Promise<void> | void;
\* RedisStore.set).  Lines 146-160 call store.set without awaiting it and
\* send the response; the write takes effect, or the promise is rejected,
\* in a later step.
HandlerSendAsync(r, out, overloaded) ==
    /\ creq[r].pc = "handler"
    /\ LET k == creq[r].key
           contentType == IF out.ct = <<>> THEN "application/json" ELSE out.ct[1]
           raw == ToRaw(out.body)
           largeEnough == Len(raw) >= minSizeBytes
           algo == PickAlgo(ccfg.compression, largeEnough, creq[r].accept.br,
                            creq[r].accept.gzip, overloaded)
           payload == IF algo # "" THEN Compress(algo, raw) ELSE Plain(raw)
           sent == IF algo # "" THEN payload ELSE Plain(raw)
           rsp == [creq[r].rsp EXCEPT !.done = TRUE, !.xcache = "MISS",
                     !.onCacheSet = 1, !.onMiss = 1, !.ctype = contentType,
                     !.enc = algo, !.vary = (algo # ""), !.status = out.status,
                     !.body = sent, !.sends = 1, !.overloaded = overloaded,
                     !.store = @ \o <<"set">>,
                     !.events = @ \o <<"store.set", "onCacheSet", "onMiss", "send">>]
       IN /\ clast' = rsp
          /\ content' = [content EXCEPT ![k] = [status |-> out.status, body |-> sent]]
          /\ revalMark' = [revalMark EXCEPT ![k] = NoMark]
          /\ creq' = [creq EXCEPT ![r].pc = "setting", ![r].rsp = rsp]
    /\ UNCHANGED <<now, rlVars, ccfg, cache, inval, ngets>>

\* The entry handed to store.set at lines 146-152, as the response shows it
\* (the stored body is the payload that was sent)
PendingEntry(rsp) ==
    MissEntry(<<>>, rsp.body, rsp.status, rsp.ctype, rsp.enc)

\* the store completes the write and fulfils the promise
SetLands(r) ==
    /\ creq[r].pc = "setting"
    /\ cache' = MapPut(cache, creq[r].key, SetEntry(PendingEntry(creq[r].rsp), now))
    /\ creq' = [creq EXCEPT ![r] = IdleCReq]
    /\ UNCHANGED <<now, rlVars, ccfg, clast, content, inval, revalMark, ngets>>

\* the store rejects the promise: nothing is written, and no handler is
\* attached to the promise
SetRejected(rsp) == [rsp EXCEPT !.fault = "set rejected"]
SetRejects(r) ==
    /\ creq[r].pc = "setting"
    /\ clast' = SetRejected(creq[r].rsp)
    /\ creq' = [creq EXCEPT ![r] = IdleCReq]
    /\ UNCHANGED <<now, rlVars, ccfg, cache, content, inval, revalMark, ngets>>

\* SpecAsync: the cache middleware over a store whose set is asynchronous.
InitAsync ==
    /\ now = 0
    /\ cfg = [store |-> "memory", strategy |-> "fixed_window", requests |-> 1,
              burst |-> <<>>, refill |-> <<>>]
    /\ counters = EmptyMap
    /\ tokenBuckets = EmptyMap
    /\ slidingWindows = EmptyMap
    /\ rl = [r \in RLSlots |-> IdleReq]
    /\ hist = <<>>
    /\ last = NoResponse
    /\ skew = FALSE
    /\ ccfg \in {c \in PathConfigs : c.cache}
    /\ CacheQuiet
NextAsync ==
    \/ \E r \in CSlots, k \in CKeys, a \in {NoAccept, BothAccept} :
          CacheLookup(r, k, a, "async")
    \/ \E r \in CSlots, out \in HandlerOutputs : HandlerSendAsync(r, out, FALSE)
    \/ \E r \in CSlots : SetLands(r)
    \/ \E r \in CSlots : SetRejects(r)
SpecAsync == InitAsync /\ [][NextAsync]_vars

\* C22: when store.set returns a promise that is rejected while a miss is
\* being stored, the failure is reported through onError or forwarded with
\* next(error).
C22_SetRejectionSurfaced ==
    \A x \in CResponses :
       x.fault = "set rejected" => x.onError >= 1 \/ x.nextErr >= 1

\* C23: a GET of a key that starts after a MISS response for that key was
\* sent, within the TTL, is a HIT, also over a store whose set completes
\* asynchronously.
C23_StoredBeforeSent ==
    \A x \in CResponses :
       (x.key # "" /\ x.method = "GET" /\ x.expect # NoContent) =>
          x.present /\ (x.done => x.xcache = "HIT")

\* ------------------------------------------ rate limiter, RedisStore
\* RedisStore.increment: MULTI { INCR key; EXPIRE key ceil(windowMs/1000) }
\* EXEC, then TTL key in a second round trip.  The key's expiry is kept in
\* ticks; the server drops a key whose expiry has passed.
RedisConfigs ==
    [store : {"redis"}, strategy : {"fixed_window"}, requests : 1..MaxQuota,
     burst : {<<>>}, refill : {<<>>}]
\* lines 8-12: INCR creates the key at 1 or adds 1; EXPIRE sets the expiry of
\* the key to ttlSeconds from now, whether or not it had one
RedisIncr_same(m, k, t) ==
    [count |-> IF CounterExpired(m, k, t) THEN 1 ELSE m[k].count,
     expiresAt |-> t + windowMs]
RedisIncr(m, k, t) ==
    [count |-> IF CounterExpired(m, k, t) THEN 1 ELSE m[k].count + 1,
     expiresAt |-> t + windowMs]
\* line 14: TTL key, in whole seconds rounded to the nearest; -2 when the key
\* is gone.  A tick is WindowSeconds / WindowTicks seconds.
RedisTtl(m, k, t) ==
    IF CounterExpired(m, k, t) THEN -2
    ELSE (2 * (m[k].expiresAt - t) * WindowSeconds + WindowTicks)
            \div (2 * WindowTicks)
\* line 15: ttlMs: ttl > 0 ? ttl * 1000 : windowMs, as ticks ttlNum / ttlDen
RedisResult(totalHits, ttl) ==
    [hitsNum |-> totalHits, hitsDen |-> 1,
     remaining |-> Max2(0, requests - totalHits),
     ttlNum |-> IF ttl > 0 THEN ttl * WindowTicks ELSE windowMs * WindowSeconds,
     ttlDen |-> WindowSeconds]

\* lines 8-13: await pipeline.exec(); totalHits is the reply of INCR
RedisExec(r, k, fail) ==
    /\ cfg.strategy = "fixed_window"
    /\ cfg.store = "redis"
    /\ CanStart(r, k)
    /\ IF fail
       THEN /\ Finish(r, CatchError(k, <<"increment">>, "increment"), now, now)
            /\ UNCHANGED counters
       ELSE LET rec == RedisIncr(counters, k, now)
            IN /\ counters' = MapPut(counters, k, rec)
               /\ rl' = [rl EXCEPT ![r] = [IdleReq EXCEPT !.pc = "rd_ttl",
                            !.key = k, !.engNow = now, !.tokens = rec.count,
                            !.calls = <<"increment">>]]
               /\ UNCHANGED <<hist, last>>
    /\ UNCHANGED <<now, cfg, tokenBuckets, slidingWindows, skew, cacheVars>>

\* lines 14-15 and rateLimit.ts 45-65: await client.ttl(key), then the decision
RedisDecide(r, fail) ==
    /\ rl[r].pc = "rd_ttl"
    /\ LET k == rl[r].key
           t == rl[r].engNow
       IN IF fail
          THEN Finish(r, CatchError(k, rl[r].calls, "increment"), t, now)
          ELSE Finish(r, Decide(k, RedisResult(rl[r].tokens, RedisTtl(counters, k, now)),
                                rl[r].calls), t, now)
    /\ skew' = (skew \/ now # rl[r].engNow)
    /\ UNCHANGED <<now, cfg, counters, tokenBuckets, slidingWindows, cacheVars>>

\* ------------------------------------------ rate limiter, concurrent requests
\* Several requests of one key handled at one instant, their store calls
\* interleaved at every await.  A new request takes the lowest free slot
\* (slots have no identity).
ConcSlots == {1, 2, 3}
RaceSlots == {1, 2}
\* INCR is carried out at most MaxReqs times on a key
CountBelow(k) == k \in DOMAIN counters => counters[k].count < MaxReqs
LowestFree(r) == \A q \in DOMAIN rl : q < r => rl[q].pc # "idle"
InitShared ==
    /\ now = 0
    /\ ccfg = [cache |-> TRUE, compression |-> "auto", swr |-> "none",
               revalTtl |-> <<>>]
    /\ CacheQuiet
    /\ counters = EmptyMap
    /\ tokenBuckets = EmptyMap
    /\ slidingWindows = EmptyMap
    /\ hist = <<>>
    /\ last = NoResponse
    /\ skew = FALSE

\* SpecConc: fixed_window over MemoryStore and over RedisStore.
InitConc ==
    /\ InitShared
    /\ cfg \in {c \in Configs : c.strategy = "fixed_window"} \cup RedisConfigs
    /\ rl = [r \in ConcSlots |-> IdleReq]
NextConc ==
    \/ \E r \in ConcSlots, fail \in BOOLEAN :
          cfg.store = "memory" /\ LowestFree(r) /\ FixedRequest(r, MainKey, fail)
    \/ \E r \in ConcSlots, fail \in BOOLEAN :
          LowestFree(r) /\ CountBelow(MainKey) /\ RedisExec(r, MainKey, fail)
    \/ \E r \in ConcSlots, fail \in BOOLEAN : RedisDecide(r, fail)
SpecConc == InitConc /\ [][NextConc]_vars

\* SpecRace: token_bucket over MemoryStore.
InitRace ==
    /\ InitShared
    /\ cfg \in {c \in Configs : c.strategy = "token_bucket"}
    /\ rl = [r \in RaceSlots |-> IdleReq]
NextRace ==
    \/ \E r \in RaceSlots : LowestFree(r) /\ TBStart(r, MainKey)
    \/ \E r \in RaceSlots, fail \in BOOLEAN : TBGet(r, fail)
    \/ \E r \in RaceSlots, fail \in BOOLEAN : TBSet(r, fail)
SpecRace == InitRace /\ [][NextRace]_vars

AllowedCount(h) == Cardinality({i \in 1..Len(h) : h[i].allowed})

\* C24: concurrent token-bucket requests of one key, from a full bucket of B
\* tokens with no time passing, never admit more than B requests.
C24_BucketCycleExclusive ==
    cfg.strategy = "token_bucket" => AllowedCount(KeyHist(MainKey)) <= maxTokens

\* Requests of the key whose INCR has been carried out and not yet decided
Incremented == {r \in DOMAIN rl : rl[r].pc = "rd_ttl"}
\* C25: concurrent fixed-window requests of one key inside one window, over
\* MemoryStore and over RedisStore, receive distinct totals; the counter is the
\* number of increments carried out (no lost update); and once the K requests
\* are all decided their totals are 1..K and exactly min(K, N) were allowed.
C25_IncrementAtomic ==
    cfg.strategy = "fixed_window" =>
      LET h == KeyHist(MainKey)
          done == {h[i].hits : i \in 1..Len(h)}
          held == {rl[r].tokens : r \in Incremented}
      IN /\ Cardinality(done) = Len(h)
         /\ Cardinality(held) = Cardinality(Incremented)
         /\ done \cap held = {}
         /\ (MainKey \in DOMAIN counters /\ last.failed = "" /\ Incremented = {}
               /\ counters[MainKey].count = Len(h)) =>
              /\ done = 1..Len(h)
              /\ AllowedCount(h) = Min2(Len(h), requests)

\* C25 witness: over RedisStore three requests were incremented before any
\* was decided, were decided in another order, and N of them were allowed.
C25_Witness ==
    /\ cfg.store = "redis" /\ cfg.strategy = "fixed_window"
    /\ Incremented = {}
    /\ LET h == KeyHist(MainKey)
       IN /\ Len(h) = 3
          /\ h[1].hits = 3 /\ h[2].hits = 1 /\ h[3].hits = 2
          /\ AllowedCount(h) = requests

\* SpecRedis: fixed_window over RedisStore, one client key, one request at
\* a time; the TTL read does not fail (SpecConc has that case).
InitRedis ==
    /\ InitShared
    /\ cfg \in RedisConfigs
    /\ rl = [r \in RLSlots |-> IdleReq]
NextRedis ==
    \/ Tick
    \/ \E r \in RLSlots, fail \in BOOLEAN : RedisExec(r, MainKey, fail)
    \/ \E r \in RLSlots : RedisDecide(r, FALSE)
SpecRedis == InitRedis /\ [][NextRedis]_vars

\* C26: with RedisStore the fixed-window counter expires W after the first
\* request of its window, whatever is sent in between: the decisions are those
\* of the fixed-window rule (a key that keeps sending is allowed again W after
\* its window began), and the reset time reported is the time remaining in
\* that window, in whole seconds.  Stated for runs in which no request saw
\* the clock advance while it was handled.
C26_Decisions ==
    \A k \in Keys :
       LET h == KeyHist(k)
           e == FixedExpect(h, -1, 0)
       IN \A i \in 1..Len(h) : h[i].allowed = e[i].allowed
C26_RedisWindowFixed ==
    ~skew =>
      /\ C26_Decisions
      /\ (LastDecided /\ hist # <<>>) =>
           LET h == KeyHist(last.key)
               e == FixedExpect(h, -1, 0)[Len(h)]
               left == e.start + windowMs - h[Len(h)].t
           IN last.hdrReset = -((-(left * WindowSeconds)) \div WindowTicks)

\* C27: every token-bucket record the engine persists has 0 <= tokens <= burst
\* (in token units), at non-decreasing request times; a request that finds
\* less than one token is blocked and persists the refilled value unchanged,
\* and a request that finds at least one is allowed and persists one less.
C27_State ==
    \A k \in DOMAIN tokenBuckets :
       /\ tokenBuckets[k].tokens >= 0
       /\ tokenBuckets[k].tokens <= maxTokens * TokenUnit
C27_Step ==
    \A r \in DOMAIN rl :
       (rl[r].pc = "tb_set" /\ rl'[r].pc = "idle" /\ last'.failed = "") =>
          LET b == tokenBuckets'[rl[r].key]
          IN /\ rl[r].tokens <= maxTokens * TokenUnit
             /\ IF rl[r].tokens < TokenUnit
                THEN b.tokens = rl[r].tokens /\ last'.outcome = "blocked"
                ELSE b.tokens = rl[r].tokens - TokenUnit /\ last'.outcome = "allowed"
C27_BucketWithinBounds == []C27_State /\ [][C27_Step]_vars

\* C27 witness: a blocked request persisted a refilled fraction of a token, and
\* before it a request at a later time than its predecessor had found the
\* bucket full.
C27_Witness ==
    /\ last.outcome = "blocked"
    /\ last.key \in DOMAIN tokenBuckets
    /\ tokenBuckets[last.key].tokens > 0
    /\ tokenBuckets[last.key].tokens < TokenUnit
    /\ \E i \in 2..Len(hist) : hist[i].key = last.key /\ hist[i].hits = TokenUnit
                                /\ hist[i].t > hist[i - 1].t

\* C28: a token-bucket record that is absent or past its expiresAt is read as
\* a full bucket with lastRefill = now; every write, allowed or blocked, sets
\* the record's expiry to now + W; so a key that sent nothing for W after its
\* last request (or never) is allowed B back-to-back requests.  The last part
\* is stated for runs in which no request saw the clock advance while it was
\* handled.
C28_Step ==
    \A r \in DOMAIN rl :
       /\ (rl[r].pc = "tb_get" /\ rl'[r].pc = "tb_set"
             /\ ~BucketLive(tokenBuckets, rl[r].key, now)) =>
            /\ rl'[r].tokens = maxTokens * TokenUnit
            /\ rl'[r].lastRefill = rl[r].engNow
       /\ (rl[r].pc = "tb_set" /\ rl'[r].pc = "idle" /\ last'.failed = "") =>
            tokenBuckets'[rl[r].key].expiresAt = now + windowMs
C28_State ==
    ~skew => \A key \in Keys :
       LET h == KeyHist(key)
       IN \A i \in 1..Len(h) :
             (i = 1 \/ h[i].t - h[i - 1].t >= windowMs) =>
                \A j \in i..Len(h) :
                   (h[j].t = h[i].t /\ j - i < maxTokens) => h[j].allowed
C28_IdleKeyGetsFullBucket == []C28_State /\ [][C28_Step]_vars

\* C28 witness: a key was blocked, sent nothing for W, and then had B = 2
\* back-to-back requests allowed.
C28_Witness ==
    /\ ~skew /\ maxTokens = 2
    /\ LET h == KeyHist(MainKey)
       IN /\ Len(h) = 5
          /\ ~h[3].allowed
          /\ h[4].t - h[3].t >= windowMs
          /\ h[5].t = h[4].t
          /\ h[4].allowed /\ h[5].allowed

\* C29: every request the rate limiter decides made exactly one
\* state-mutating store call: increment under fixed_window and under either
\* fallback, addToWindow under sliding_window, setTokens under token_bucket
\* (allowed and blocked alike, after one getTokens); a request whose store
\* call failed made at most one; and the store's records change only in the
\* step of such a call (or when getTokens drops an expired bucket).
MutatingCalls == {"increment", "addToWindow", "setTokens"}
MutatingCall ==
    IF cfg.strategy = "sliding_window" /\ HasAddToWindow THEN "addToWindow"
    ELSE IF cfg.strategy = "token_bucket" /\ HasTokenOps THEN "setTokens"
    ELSE "increment"
Mutations(calls) == Cardinality({i \in 1..Len(calls) : calls[i] \in MutatingCalls})
C29_State ==
    /\ LastDecided =>
         /\ Mutations(last.calls) = 1
         /\ last.calls[Len(last.calls)] = MutatingCall
         /\ last.calls = IF MutatingCall = "setTokens"
                         THEN <<"getTokens", "setTokens">> ELSE <<MutatingCall>>
    /\ last.outcome = "error" => Mutations(last.calls) <= 1
C29_Step ==
    /\ <<counters, slidingWindows>>' # <<counters, slidingWindows>> =>
         /\ last'.outcome \in {"allowed", "blocked"}
         /\ last'.calls[Len(last'.calls)] = MutatingCall
         /\ hist' # hist
    /\ tokenBuckets' # tokenBuckets =>
         \/ /\ last'.outcome \in {"allowed", "blocked"}
            /\ last'.calls[Len(last'.calls)] = "setTokens"
            /\ hist' # hist
         \/ \E r \in DOMAIN rl :
               /\ rl[r].pc = "tb_get"
               /\ tokenBuckets' = MapDel(tokenBuckets, rl[r].key)
C29_OneMutationPerRequest == []C29_State /\ [][C29_Step]_vars

\* C29 witness: a token-bucket request was blocked after one getTokens and
\* one setTokens, which persisted the bucket.
C29_Witness ==
    /\ cfg.strategy = "token_bucket" /\ HasTokenOps
    /\ last.outcome = "blocked"
    /\ last.calls = <<"getTokens", "setTokens">>
    /\ last.key \in DOMAIN tokenBuckets

\* The state of one cache key in MemoryStore: no entry; an entry whose TTL has
\* not elapsed; an entry whose TTL has elapsed; the latter while a revalidation
\* that has not yet called set is under way.
SetPending(k) ==
    \E r \in CSlots : creq[r].key = k /\ creq[r].pc = "reval" /\ ~creq[r].setDone
KeyStatus(k) ==
    IF ~HasEntry(cache, k) THEN "Absent"
    ELSE IF EntryTtl(cache, k, now) > 0 THEN "Populated"
    ELSE IF SetPending(k) THEN "RevalidationInFlight"
    ELSE "Stale"
\* What a step did to the key
MissStores(k) ==
    \E r \in CSlots : /\ creq[r].pc = "handler" /\ creq[r].key = k
                      /\ creq'[r].pc = "idle"
                      /\ clast'.xcache = "MISS" /\ HasEntry(cache', k)
RevalStores(k) ==
    \E r \in CSlots : /\ creq[r].pc = "reval" /\ creq[r].key = k
                      /\ ~creq[r].setDone /\ creq'[r].setDone
                      /\ creq'[r].rsp = creq[r].rsp
RevalEnds(k) ==
    \E r \in CSlots : /\ creq[r].pc = "reval" /\ creq[r].key = k
                      /\ ~creq[r].setDone
                      /\ \/ creq'[r].pc = "idle"
                         \/ /\ creq'[r].setDone
                            /\ creq'[r].rsp.onError = creq[r].rsp.onError + 1
TtlElapses == now' = now + 1
StaleGet(k) ==
    \E r \in CSlots : /\ creq[r].pc = "idle" /\ creq'[r].pc = "reval"
                      /\ creq'[r].key = k /\ ccfg.swr = "on"
                      /\ creq'[r].rsp.method = "GET"
                      /\ creq'[r].rsp.done /\ creq'[r].rsp.xcache = "HIT"
Deleted(k) ==
    /\ creq' = creq /\ now' = now /\ ngets' = ngets
    /\ HasEntry(cache, k) /\ ~HasEntry(cache', k)

\* C30 as stated: the state of a cache key changes only along Absent ->
\* Populated (a miss that stores), Populated -> Stale (the TTL elapses),
\* Stale -> RevalidationInFlight (a GET with SWR and a callback, answered at
\* once), RevalidationInFlight -> Populated (a successful set), and any state
\* -> Absent (an explicit delete).
C30_Edge(k, s, t) ==
    CASE t = "Absent" -> Deleted(k)
      [] s = "Absent" /\ t = "Populated" -> MissStores(k)
      [] s = "Populated" /\ t = "Stale" -> TtlElapses
      [] s = "Stale" /\ t = "RevalidationInFlight" -> StaleGet(k)
      [] s = "RevalidationInFlight" /\ t = "Populated" -> RevalStores(k)
      [] OTHER -> FALSE
C30_EdgeAmended(k, s, t) ==
    CASE t = "Absent" -> Deleted(k)
      [] s = "Absent" /\ t = "Populated" -> MissStores(k) \/ RevalStores(k)
      [] s = "Populated" /\ t = "Stale" -> TtlElapses /\ ~SetPending(k)
      [] s = "Populated" /\ t = "RevalidationInFlight" -> TtlElapses /\ SetPending(k)
      [] s = "Stale" /\ t = "RevalidationInFlight" -> StaleGet(k)
      [] s = "Stale" /\ t = "Populated" -> MissStores(k)
      [] s = "RevalidationInFlight" /\ t = "Populated" ->
            RevalStores(k) \/ MissStores(k)
      [] s = "RevalidationInFlight" /\ t = "Stale" -> RevalEnds(k)
      [] OTHER -> FALSE
C31_State ==
    \A x \in CResponses :
       (x.done /\ x.xcache \in {"HIT", "MISS"}) =>
          /\ (x.enc # "") = (x.body.enc # "identity")
          /\ x.enc # "" => x.body.enc = x.enc
          /\ x.vary = (x.enc # "")
C31_Step ==
    (ngets' = ngets + 1 /\ creq' = creq /\ clast'.xcache = "HIT") =>
       /\ HasEntry(cache, clast'.key)
       /\ clast'.enc = cache[clast'.key].contentEncoding
       /\ clast'.body = cache[clast'.key].body
C31_EncodingHeaderMatchesBody == []C31_State /\ [][C31_Step]_vars

\* C31 witness: an entry stored gzip-compressed was replayed as a HIT with
\* Content-Encoding: gzip and Vary, after a MISS that sent the same bytes.
C31_Witness ==
    /\ clast.done /\ clast.xcache = "HIT"
    /\ clast.enc = "gzip" /\ clast.body.enc = "gzip" /\ clast.vary
    /\ clast.expect.body = clast.body

\* ------------------------------------------ invalidateCache, all outcomes
\* invalidateMiddleware (dashboard.ts 1031-1046) as one request: resolved is
\* the list of keys that keys and resolveKeys yield, fault is where it
\* fails, if at all.  ccfg.delete tells whether the store has a delete
\* method.  MemoryStore.delete is synchronous, so the deletion is one step.
InvalFaults == {"", "resolveKeys", "delete"}
InvalBase == [EmptyResp EXCEPT !.method = "INVALIDATE", !.done = TRUE]
\* lines 1042-1045: catch: onError, then next() without an argument
InvalFailed_forward(rsp, at) ==
    [rsp EXCEPT !.fault = at, !.onError = 1, !.nextErr = 1,
                !.events = @ \o <<"onError", "next(error)">>]
InvalFailed(rsp, at) ==
    [rsp EXCEPT !.fault = at, !.onError = 1, !.next = 1,
                !.events = @ \o <<"onError", "next">>]
\* lines 1033, 1038: return next()
InvalSkipped(rsp) == [rsp EXCEPT !.next = 1, !.events = @ \o <<"next">>]
\* lines 1040-1042: the keys are deleted, onInvalidated, next()
InvalDone(rsp) ==
    [rsp EXCEPT !.next = 1, !.store = @ \o <<"delete">>,
                !.events = @ \o <<"delete", "onInvalidated", "next">>]
InvalidateRequest(resolved, fault) ==
    /\ IF ~ccfg.delete
       THEN /\ clast' = InvalSkipped(InvalBase)
            /\ UNCHANGED <<cache, content, inval, revalMark>>
       ELSE IF fault = "resolveKeys"
       THEN /\ clast' = InvalFailed(InvalBase, fault)
            /\ UNCHANGED <<cache, content, inval, revalMark>>
       ELSE IF resolved = <<>>
       THEN /\ clast' = InvalSkipped(InvalBase)
            /\ UNCHANGED <<cache, content, inval, revalMark>>
       ELSE LET k == resolved[1]
                rsp == [InvalBase EXCEPT !.key = k, !.present = HasEntry(cache, k)]
            IN IF fault = "delete"
               THEN /\ clast' = InvalFailed([rsp EXCEPT !.store = <<"delete">>], fault)
                    /\ UNCHANGED <<cache, content, inval, revalMark>>
               ELSE /\ clast' = InvalDone(rsp)
                    /\ cache' = DeleteKey(cache, k)
                    /\ content' = [content EXCEPT ![k] = NoContent]
                    /\ revalMark' = [revalMark EXCEPT ![k] = NoMark]
                    /\ inval' = [inval EXCEPT ![k] =
                                   [state |-> IF InFlight(k) THEN "handler"
                                              ELSE "quiet",
                                    fresh |-> GetLive(cache, k, now)]]
    /\ UNCHANGED <<now, rlVars, ccfg, creq, ngets>>

\* SpecInval: the cache middleware and the invalidation middleware over a
\* store with or without delete.
InitInval ==
    /\ now = 0
    /\ cfg = [store |-> "memory", strategy |-> "fixed_window", requests |-> 1,
              burst |-> <<>>, refill |-> <<>>]
    /\ counters = EmptyMap
    /\ tokenBuckets = EmptyMap
    /\ slidingWindows = EmptyMap
    /\ rl = [r \in RLSlots |-> IdleReq]
    /\ hist = <<>>
    /\ last = NoResponse
    /\ skew = FALSE
    /\ ccfg \in [cache : {TRUE}, compression : {"off", "auto"}, swr : {"none"},
                 revalTtl : {<<>>}, delete : BOOLEAN]
    /\ CacheQuiet
NextInval ==
    \/ Tick
    \/ \E r \in CSlots, k \in CKeys, a \in {NoAccept, BothAccept} :
          CacheLookup(r, k, a, "async")
    \/ \E r \in CSlots, out \in HandlerOutputs : HandlerSend(r, out, FALSE)
    \/ \E keys \in {<<>>} \cup {<<k>> : k \in CKeys}, fault \in InvalFaults :
          InvalidateRequest(keys, fault)
SpecInval == InitInval /\ [][NextInval]_vars

\* C32: the invalidation middleware calls next() exactly once and never
\* next(error); without a delete method on the store it makes no store call
\* and leaves the cache as it is; when resolving the keys or a delete fails,
\* onError is called once and next() is still called.
C32_State ==
    clast.method = "INVALIDATE" =>
       /\ clast.next = 1 /\ clast.nextErr = 0 /\ clast.sends = 0
       /\ ~ccfg.delete => clast.store = <<>> /\ clast.onError = 0
       /\ clast.fault # "" => clast.onError = 1
       /\ clast.fault = "" => clast.onError = 0
       /\ Len(clast.store) <= 1
C32_Step ==
    (clast'.method = "INVALIDATE" /\ (~ccfg.delete \/ clast'.fault # "")) =>
       cache' = cache
C32_InvalidationNeverFails == []C32_State /\ [][C32_Step]_vars

\* C32 witness: a delete of a cached key failed; the entry is still there,
\* onError was called and next() was called without an error.
C32_Witness ==
    /\ clast.method = "INVALIDATE" /\ clast.fault = "delete"
    /\ clast.present /\ HasEntry(cache, clast.key)
    /\ clast.onError = 1 /\ clast.next = 1 /\ clast.nextErr = 0

\* ------------------------------------------ cacheMiddleware over RedisStore
\* Here cache[k] is the string Redis holds under the key, with the time the
\* key expires: text "json" for a payload written by RedisStore.set (the body
\* base64-encoded), text "garbage" for a string that JSON.parse rejects.
\* Redis no longer returns a key whose expiry has passed.
Base64(bytes) == [b64 |-> bytes]
FromBase64(s) == s.b64
\* RedisStore.set lines 54-60: JSON.stringify({...value, body: base64,
\* __isBase64: true}); SETEX key ceil(ttlMs / 1000)
RedisSerialize_raw(value, t) ==
    [text |-> "garbage", isBase64 |-> TRUE, body |-> Base64(value.body),
     statusCode |-> value.statusCode, contentType |-> value.contentType,
     contentEncoding |-> value.contentEncoding, expiresAt |-> t + value.ttlMs]
RedisSerialize(value, t) ==
    [text |-> "json", isBase64 |-> TRUE, body |-> Base64(value.body),
     statusCode |-> value.statusCode, contentType |-> value.contentType,
     contentEncoding |-> value.contentEncoding, expiresAt |-> t + value.ttlMs]
\* a string that is not JSON, written under the key by something else
Garbage(t) ==
    [text |-> "garbage", isBase64 |-> FALSE, body |-> Base64(<<>>),
     statusCode |-> 0, contentType |-> "", contentEncoding |-> "",
     expiresAt |-> t + ttlMs]
\* client.get(key): the string, or nothing
RedisRaw(m, k, t) == IF k \in DOMAIN m /\ m[k].expiresAt > t THEN <<m[k]>> ELSE <<>>
\* get lines 21-30, getWithTTL lines 36-44: JSON.parse in a try block; the
\* body is decoded from base64 when __isBase64 is set
RedisParse(raw) ==
    IF raw = <<>> THEN <<>>
    ELSE IF raw[1].text # "json" THEN <<>>
    ELSE <<[body |-> IF raw[1].isBase64 THEN FromBase64(raw[1].body) ELSE raw[1].body,
            statusCode |-> raw[1].statusCode, contentType |-> raw[1].contentType,
            contentEncoding |-> raw[1].contentEncoding,
            expiresAt |-> raw[1].expiresAt]>>

\* cacheMiddleware lines 49-104 and 106-169 with RedisStore.getWithTTL / get
RedisLookup(r, k, accept) ==
    /\ FreeSlot(r)
    /\ ccfg.cache
    /\ ngets < MaxGets
    /\ ngets' = ngets + 1
    /\ LET raw == RedisRaw(cache, k, now)
           got == RedisParse(raw)
           base == [EmptyResp EXCEPT !.key = k, !.present = (raw # <<>>),
                       !.accept = accept, !.method = "GET", !.bypass = "none",
                       !.fault = IF raw # <<>> /\ got = <<>> THEN "malformed" ELSE "",
                       !.store = IF got # <<>> THEN <<"getWithTTL">>
                                 ELSE <<"getWithTTL", "get">>,
                       !.ttlLeft = IF got # <<>> THEN got[1].expiresAt - now ELSE 0,
                       !.expect = content[k]]
       IN IF got # <<>>
          THEN /\ clast' = HitResponse(base, got[1])
               /\ creq' = creq
          ELSE /\ clast' = clast
               /\ creq' = [creq EXCEPT ![r] =
                     [IdleCReq EXCEPT !.pc = "handler", !.key = k, !.accept = accept,
                         !.rsp = [base EXCEPT !.next = 1, !.handlerCalls = 1,
                                              !.wrapped = TRUE,
                                              !.events = <<"next">>]]]
    /\ UNCHANGED <<now, rlVars, ccfg, cache, content, inval, revalMark>>

\* RedisStore.set: the SETEX issued at line 60 takes effect
RedisSetLands(r) ==
    /\ creq[r].pc = "setting"
    /\ cache' = MapPut(cache, creq[r].key,
                       RedisSerialize(PendingEntry(creq[r].rsp), now))
    /\ creq' = [creq EXCEPT ![r] = IdleCReq]
    /\ UNCHANGED <<now, rlVars, ccfg, clast, content, inval, revalMark, ngets>>

\* the string under a key is replaced by one that is not JSON
Corrupt(k) ==
    /\ RedisRaw(cache, k, now) # <<>>
    /\ cache[k].text = "json"
    /\ cache' = [cache EXCEPT ![k] = Garbage(now)]
    /\ UNCHANGED <<now, rlVars, ccfg, creq, clast, content, inval, revalMark, ngets>>

\* SpecRedisCache: the cache middleware over RedisStore.
InitRedisCache ==
    /\ InitAsync
    /\ ccfg.compression \in {"off", "auto"}
NextRedisCache ==
    \/ Tick
    \/ \E r \in CSlots, k \in CKeys, a \in {NoAccept, BothAccept} : RedisLookup(r, k, a)
    \/ \E r \in CSlots, out \in HandlerOutputs : HandlerSendAsync(r, out, FALSE)
    \/ \E r \in CSlots : RedisSetLands(r)
    \/ \E r \in CSlots : SetRejects(r)
    \/ \E k \in CKeys : Corrupt(k)
SpecRedisCache == InitRedisCache /\ [][NextRedisCache]_vars

\* C33: a GET that finds a payload under its key that is not JSON is handled
\* as a miss: RedisStore returns undefined from getWithTTL and from get, no
\* error is reported or forwarded, the handler is invoked once, and the write
\* of its response replaces the payload by one that parses to what was sent.
C33_State ==
    \A x \in CResponses :
       x.fault = "malformed" =>
          /\ x.present /\ x.xcache # "HIT"
          /\ x.handlerCalls = 1 /\ x.next = 1
          /\ x.onError = 0 /\ x.nextErr = 0
          /\ x.store \in {<<"getWithTTL", "get">>, <<"getWithTTL", "get", "set">>}
          /\ x.done => x.xcache = "MISS"
C33_Step ==
    \A r \in CSlots :
       (creq[r].pc = "setting" /\ creq'[r].pc = "idle" /\ cache' # cache) =>
          LET got == RedisParse(RedisRaw(cache', creq[r].key, now))
          IN /\ got # <<>>
             /\ got[1].body = creq[r].rsp.body
             /\ got[1].statusCode = creq[r].rsp.status
             /\ got[1].contentEncoding = creq[r].rsp.enc
C33_MalformedIsMiss == []C33_State /\ [][C33_Step]_vars

\* C33 witness: a GET found a malformed payload, was answered as a MISS, and
\* its write has replaced the payload by a valid one.
C33_Witness ==
    /\ clast.fault = "malformed" /\ clast.done /\ clast.xcache = "MISS"
    /\ RedisParse(RedisRaw(cache, clast.key, now)) # <<>>
    /\ RedisParse(RedisRaw(cache, clast.key, now))[1].body = clast.body
    /\ \A r \in CSlots : creq[r].pc = "idle"

\* C34: every request the rate limiter handles gets exactly one outcome, with
\* its hook fired once and before the outcome's call: allowed (onAllowed, then
\* next()), blocked (onBlocked, then the 429), or error (onError, then
\* next(error)); hooks and next are taken not to throw.
Suffix(s, n) == SubSeq(s, Len(s) - n + 1, Len(s))
C34_State ==
    last # NoResponse =>
       /\ last.outcome \in {"allowed", "blocked", "error"}
       /\ last.onAllowed + last.onBlocked + last.onError = 1
       /\ last.next + last.nextErr + (IF last.status = 429 THEN 1 ELSE 0) = 1
       /\ last.outcome = "allowed" =>
            /\ last.onAllowed = 1 /\ last.next = 1
            /\ Suffix(last.events, 2) = <<"onAllowed", "next">>
       /\ last.outcome = "blocked" =>
            /\ last.onBlocked = 1 /\ last.status = 429 /\ last.body # ""
            /\ Suffix(last.events, 3) = <<"onBlocked", "status", "json">>
       /\ last.outcome = "error" =>
            /\ last.onError = 1 /\ last.nextErr = 1
            /\ last.events = <<"onError", "next(error)">>
C34_Step ==
    \A r \in DOMAIN rl :
       (rl[r].pc # "idle" /\ rl'[r].pc = "idle") =>
          /\ last'.key = rl[r].key
          /\ last'.outcome \in {"allowed", "blocked", "error"}
C34_ExactlyOneOutcome == []C34_State /\ [][C34_Step]_vars

\* C34 witness: one run saw all three outcomes: a request was allowed, one
\* was blocked, and the last one ended in the error outcome.
C34_Witness ==
    /\ last.outcome = "error" /\ last.onError = 1
    /\ \E i \in 1..Len(hist) : hist[i].allowed
    /\ \E i \in 1..Len(hist) : ~hist[i].allowed

\* SpecWide: token_bucket over MemoryStore with any burst, smaller or larger
\* than requests, the default refill rate, one client key.
WideConfigs ==
    [store : {"memory"}, strategy : {"token_bucket"}, requests : 1..MaxQuota,
     burst : {<<>>} \cup {<<b>> : b \in 1..(MaxQuota + 1)}, refill : {<<>>}]
InitWide ==
    /\ InitShared
    /\ cfg \in WideConfigs
    /\ rl = [r \in RLSlots |-> IdleReq]
NextWide ==
    \/ Tick
    \/ \E r \in RLSlots : TBStart(r, MainKey)
    \/ \E r \in RLSlots, fail \in BOOLEAN : TBGet(r, fail)
    \/ \E r \in RLSlots, fail \in BOOLEAN : TBSet(r, fail)
SpecWide == InitWide /\ [][NextWide]_vars

\* C35: on every response that carries the rate-limit headers,
\* 0 <= X-RateLimit-Remaining <= X-RateLimit-Limit, and X-RateLimit-Remaining
\* is 0 when the request is blocked.
C35_RemainingWithinLimit ==
    LastDecided =>
       /\ last.hdrRemaining >= 0
       /\ last.hdrRemaining <= last.hdrLimit
       /\ last.outcome = "blocked" => last.hdrRemaining = 0

\* A request of a key was blocked, and the key's next request comes exactly
\* the reported ttlMs later, with no request of any key decided in between
C36_Case ==
    /\ Len(hist') = Len(hist) + 1 /\ Len(hist) >= 1
    /\ last.outcome = "blocked"
    /\ hist[Len(hist)].key = last.key
    /\ hist'[Len(hist')].key = last.key
    /\ (hist'[Len(hist')].t - hist[Len(hist)].t) * last.ttlDen = last.ttlNum
C36_Step == C36_Case => hist'[Len(hist')].allowed

\* C36: the reset time reported with a blocked response is honest,
\* for the three strategies over MemoryStore: when a request of a key is
\* blocked at time t with ttlMs = r and the key's next request comes at t + r,
\* with none in between, that request is allowed.
C36_ResetTimeHonest == [][C36_Step]_vars

\* The fixed_window strategy over MemoryStore.increment, replayed on the timed
\* request sequence h of one key: m is the store's counters map
RECURSIVE FixedDecisions(_, _)
FixedDecisions(h, m) ==
    IF h = <<>> THEN <<>>
    ELSE LET rec == IncrementRec(m, h[1].key, h[1].t)
         IN <<[allowed |-> ~(rec.count > requests), count |-> rec.count]>>
              \o FixedDecisions(Tail(h), MapPut(m, h[1].key, rec))

\* the window record of every key was created at its first timestamp, expires
\* one window later, and every request of the key is decided as fixed_window
\* decides it, with the same count
C37_State ==
    /\ \A k \in Keys :
         LET h == KeyHist(k)
             e == FixedDecisions(h, EmptyMap)
         IN \A i \in 1..Len(h) :
              h[i].allowed = e[i].allowed /\ h[i].hits = e[i].count
    /\ \A k \in DOMAIN slidingWindows :
         LET w == slidingWindows[k]
         IN /\ w.timestamps # <<>>
            /\ w.expiresAt = w.timestamps[1] + windowMs
\* a call on a live record appends its timestamp and removes none, and leaves
\* the expiry as it was; a call on an expired record starts from an empty one
C37_Step ==
    \A k \in Keys :
       (k \in DOMAIN slidingWindows /\ slidingWindows'[k] # slidingWindows[k]) =>
          LET w == slidingWindows[k]
              w2 == slidingWindows'[k]
          IN IF w.expiresAt > now
             THEN /\ w2.expiresAt = w.expiresAt
                  /\ w2.timestamps = Append(w.timestamps, now)
             ELSE /\ w2.expiresAt = now + windowMs
                  /\ w2.timestamps = <<now>>

\* C37: with MemoryStore, in runs where the clock does not advance between the
\* engine's and the store's reading of the time, sliding_window decides every
\* request of a key as fixed_window decides the same timed sequence: the
\* window record is discarded one window after its creation, its expiry is
\* never refreshed, and the timestamp filter removes nothing from a live
\* record.
C37_SlidingDecidesAsFixed ==
    /\ [](~skew => C37_State)
    /\ [][(~skew') => C37_Step]_vars

\* C37 witness: without skew, a key used its quota, had a request blocked
\* inside the window, and its request one window or more after the first was
\* allowed as the first of a new record.
C37_Witness ==
    /\ ~skew
    /\ LET h == KeyHist(MainKey)
       IN /\ Len(h) >= 3
          /\ \E i \in 2..(Len(h) - 1) :
                ~h[i].allowed /\ h[i].t < h[1].t + windowMs
          /\ h[Len(h)].t >= h[1].t + windowMs
          /\ h[Len(h)].allowed /\ h[Len(h)].hits = 1
    /\ MainKey \in DOMAIN slidingWindows
    /\ Len(slidingWindows[MainKey].timestamps) = 1

\* C38: an invalidation is not undone by a request in flight: when
\* invalidateCache completed for a key while a handler for a GET of the key
\* was running, the next GET of the key is not answered as a HIT (the only
\* body a HIT could replay then is one the handler that started before the
\* invalidation passed to res.send).
C38_InvalidationNotUndone ==
    \A x \in CResponses :
      (x.done /\ x.method = "GET" /\ x.inval.state = "handler") =>
         x.xcache # "HIT"
====
